---- MODULE Spec2Model ----
(***************************************************************************)
(* A model of choco.js: the middleware Pipeline (src/pipeline.ts), the     *)
(* path matcher (src/utils/path-utils.ts) and the Router (src/router.ts).  *)
(*                                                                         *)
(* Strings that the code inspects character by character (prefixes, route  *)
(* patterns, request paths) are sequences of one-character strings.        *)
(***************************************************************************)
EXTENDS Integers, Sequences, FiniteSets, TLC

VARIABLES
    \* ---- Pipeline (one Pipeline object and one handle() call on it)
    handlers,   \* Pipeline.handlers: the names of the registered stages, in order
    regCall,    \* the registration call made last (its arguments and outcome)
    pc,         \* "idle" | "running" | "done" | "rejected": the handle() call
    index,      \* the local `index` of handle()
    stack,      \* the stages awaiting their continuation, innermost last
    log,        \* the positions of the stages started by this handle() call
    skipped,    \* the positions of the stages that returned without calling next
    result,     \* what handle() resolved to, FALSE until it has resolved
    thrown,     \* what handle() rejected with
    \* ---- the path matcher applied to one input
    mPrefix,    \* the `prefix` argument
    mPattern,   \* the `routePath` argument, a string pattern
    mPath,      \* the `requestPath` argument
    mMatched,   \* <<what matchPath returned>>, <<>> before the call
    mParams,    \* <<what extractParams returned>>, <<>> before the call
    \* ---- a tree of Routers; router 1 is the one requests are given to
    made,       \* how many Routers have been constructed
    prefixOf,   \* Router.prefix of each router
    children,   \* Router.children of each router, in appendChild order
    routes,     \* Router.routes of each router, in insertion order
    lk,         \* the last lookupPath call on router 1: arguments and result
    \* ---- one Router.handle(ctx) call on router 1
    pipes,      \* Router.pipeline (pre) and Router.postPipeline (post) of each router
    isDev,      \* process.env.NODE_ENV !== "production"
    rpc,        \* where the handle() call is
    req,        \* ctx.req: method and path
    res,        \* ctx.res: status and data
    error,      \* what _handle() rejected with
    found,      \* `result` of _handle(): what lookupPath returned
    parentAt,   \* the position of `parent` in the loop over the parents
    ret,        \* what the promise chain of handle() carries
    events,     \* what the call has done so far, in order
    preRan,     \* how the router's own pre-pipeline ended
    ctxParams,  \* ctx.params
    \* ---- the middlewares of a router that serves one request after another
    reqIp,        \* ctx.req.ip of the request, "" when it has none
    served,       \* what has been counted of the requests served so far
    rateMax,      \* RateLimitSettings.max
    rateCallback, \* whether RateLimitSettings.ratelimitCallback is given
    rateHits,     \* the `hits` map of the rate limiter (0 for an absent key)
    cacheSettings, \* the CacheSettings given to both cache middlewares
    cache,         \* the module's CACHE map: key -> cached item
    cacheTimers,   \* the pending setTimeout callbacks: how many for each key
    corsSettings,  \* the CorsSettings given to CorsMiddleware
    resHeaders,    \* ctx.res.headers, as far as the CORS stage writes it
    \* ---- concurrent handle() calls on one Pipeline, with their suspensions
    runs,       \* each handle() call: its Context's stages and where they are
    indexes     \* the `index` variable of each handle() call

pipeVars == <<handlers, regCall, pc, index, stack, log, skipped, result, thrown>>

matcherVars == <<mPrefix, mPattern, mPath, mMatched, mParams>>

treeVars == <<made, prefixOf, children, routes>>

routerVars ==
    <<pipes, isDev, rpc, req, res, error, found, parentAt, ret, events, preRan,
      ctxParams>>

rateVars == <<rateMax, rateCallback, rateHits>>

cacheVars == <<cacheSettings, cache, cacheTimers>>

corsVars == <<corsSettings, resHeaders>>

mwVars == <<reqIp, served, rateVars, cacheVars, corsVars>>

asyncVars == <<runs, indexes>>

vars == <<pipeVars, matcherVars, treeVars, lk, routerVars, mwVars, asyncVars>>

(***************************************************************************)
(* Bounds of the model.                                                    *)
(***************************************************************************)
MaxHandlers == 4    \* stages registered on one Pipeline
MaxSegs == 3        \* segments of a route pattern and of a request path
MaxRouters == 3     \* Routers constructed
MaxRegs == 4        \* appendChild and add calls made on a tree of routers
MaxStages == 2      \* stages registered on the pipelines of a tree of routers
MaxHits == 2        \* RateLimitSettings.max
MaxRequests == 3    \* requests served one after another
MaxCacheRequests == 2   \* requests served one after another by a caching server
MaxItems == 2       \* CacheSettings.maxItems
MaxLength == 3      \* CacheSettings.maxLength, in fields of the cached items

Names == {"A", "B", "C", "D"}
FnNames == {"A", "B"}       \* the `name` of a handler function
\* how often one stage invokes its continuation: never, once, twice
CallChoices == {0, 1, 2}
NoName == ""
None == "none"

(***************************************************************************)
(* Pipeline registration: addFirst / addBefore / addAfter / addLast.       *)
(***************************************************************************)
NoCall == [op |-> None]

\* `handlerName || handler.name`
NameOf(handlerName, fnName) == IF handlerName # NoName THEN handlerName ELSE fnName

\* Array.prototype.findIndex((h) => h.name === name): 0-based, -1 when absent
FindLastIndex(hs, name) ==
    IF \E i \in 1..Len(hs) : hs[i] = name
    THEN (CHOOSE i \in 1..Len(hs) :
            hs[i] = name /\ \A j \in (i+1)..Len(hs) : hs[j] # name) - 1
    ELSE -1

FindIndex(hs, name) ==
    IF \E i \in 1..Len(hs) : hs[i] = name
    THEN (CHOOSE i \in 1..Len(hs) :
            hs[i] = name /\ \A j \in 1..(i-1) : hs[j] # name) - 1
    ELSE -1

\* Array.prototype.splice(start, 0, item)
Splice(hs, start, item) ==
    SubSeq(hs, 1, start) \o <<item>> \o SubSeq(hs, start + 1, Len(hs))

\* Array.prototype.unshift(item)
Unshift(hs, item) == <<item>> \o hs

\* Array.prototype.push(item)
Push(hs, item) == Append(hs, item)

\* Stages are registered before the pipeline serves (spec 4.2: the stage list
\* is read-only once request processing has begun).
Registering == pc = "idle"

Idle == pc # "running"

RunUntouched == UNCHANGED <<pc, index, stack, log, skipped, result, thrown>>

RegisteredAnyway(op, anchor, name, outcome, hs) ==
    /\ regCall' = [op |-> op, anchor |-> anchor, name |-> name, outcome |-> outcome]
    /\ handlers' = IF outcome = "ok" THEN hs ELSE Push(hs, anchor)
    /\ RunUntouched

Registered(op, anchor, name, outcome, hs) ==
    /\ regCall' = [op |-> op, anchor |-> anchor, name |-> name, outcome |-> outcome]
    /\ handlers' = hs
    /\ RunUntouched

AddFirst ==
    /\ Registering
    /\ \E isFn \in BOOLEAN, handlerName \in Names \cup {NoName}, fnName \in FnNames :
         IF ~isFn
         THEN Registered("addFirst", NoName, NoName, "TypeError", handlers)
         ELSE /\ Len(handlers) < MaxHandlers
              /\ LET name == NameOf(handlerName, fnName)
                 IN  Registered("addFirst", NoName, name, "ok", Unshift(handlers, name))

AddBefore ==
    /\ Registering
    /\ \E isFn \in BOOLEAN, before \in Names,
          handlerName \in Names \cup {NoName}, fnName \in FnNames :
         IF ~isFn
         THEN Registered("addBefore", before, NoName, "TypeError", handlers)
         ELSE LET name == NameOf(handlerName, fnName)
                  i == FindIndex(handlers, before)
              IN  IF i # -1
                  THEN /\ Len(handlers) < MaxHandlers
                       /\ Registered("addBefore", before, name, "ok",
                                     Splice(handlers, i, name))
                  ELSE Registered("addBefore", before, name, "Error", handlers)

AddAfter ==
    /\ Registering
    /\ \E isFn \in BOOLEAN, after \in Names,
          handlerName \in Names \cup {NoName}, fnName \in FnNames :
         IF ~isFn
         THEN Registered("addAfter", after, NoName, "TypeError", handlers)
         ELSE LET name == NameOf(handlerName, fnName)
                  i == FindIndex(handlers, after)
              IN  IF i # -1
                  THEN /\ Len(handlers) < MaxHandlers
                       /\ Registered("addAfter", after, name, "ok",
                                     Splice(handlers, i + 1, name))
                  ELSE Registered("addAfter", after, name, "Error", handlers)

AddLast ==
    /\ Registering
    /\ \E isFn \in BOOLEAN, handlerName \in Names \cup {NoName}, fnName \in FnNames :
         IF ~isFn
         THEN Registered("addLast", NoName, NoName, "TypeError", handlers)
         ELSE /\ Len(handlers) < MaxHandlers
              /\ LET name == NameOf(handlerName, fnName)
                 IN  Registered("addLast", NoName, name, "ok", Push(handlers, name))

(***************************************************************************)
(* Pipeline.handle.  A frame of `stack` is a stage (or, at position 0, the *)
(* body of handle itself) that is suspended or about to run: `calls` is    *)
(* how many times it will still invoke the continuation, `invoked` whether *)
(* it has invoked it.  What a stage does is the environment's choice, made *)
(* when the stage is started.                                              *)
(***************************************************************************)
Frame(pos, calls) == [pos |-> pos, calls |-> calls, invoked |-> FALSE]

Top == stack[Len(stack)]

Pop(st) == SubSeq(st, 1, Len(st) - 1)

\* the caller's frame after it has invoked `next` once more
Called(st) == [st EXCEPT ![Len(st)].calls = @ - 1, ![Len(st)].invoked = TRUE]

\* `return index === this.handlers.length`
Completed(i, hs) == i = Len(hs)

\* handle(context): `let index = 0; ... await next();`
HandleOn(hs) ==
    /\ Idle
    /\ pc' = "running"
    /\ index' = 0
    /\ stack' = <<Frame(0, 1)>>
    /\ log' = <<>>
    /\ skipped' = {}
    /\ result' = FALSE
    /\ thrown' = None
    /\ regCall' = NoCall
    /\ handlers' = hs

HandleCall == HandleOn(handlers)

StageRestart(calls) ==
    /\ pc = "running" /\ stack # <<>> /\ Top.calls > 0
    /\ index < Len(handlers)
    /\ index' = IF index = 0 THEN 1 ELSE index
    /\ log' = Append(log, index')
    /\ stack' = Append(Called(stack), Frame(index', calls))
    /\ UNCHANGED <<handlers, regCall, pc, skipped, result, thrown>>

\* next() with index < handlers.length: the stage at `index` is started and
\* runs up to its first call of the continuation, or to its end.
StageStart(calls) ==
    /\ pc = "running" /\ stack # <<>> /\ Top.calls > 0
    /\ index < Len(handlers)
    /\ index' = index + 1
    /\ log' = Append(log, index + 1)
    /\ stack' = Append(Called(stack), Frame(index + 1, calls))
    /\ UNCHANGED <<handlers, regCall, pc, skipped, result, thrown>>

\* next() with index < handlers.length, and the stage started throws: every
\* caller is awaiting its continuation, so handle() rejects.
StageThrow(err) ==
    /\ pc = "running" /\ stack # <<>> /\ Top.calls > 0
    /\ index < Len(handlers)
    /\ index' = index + 1
    /\ log' = Append(log, index + 1)
    /\ stack' = <<>>
    /\ pc' = "rejected"
    /\ thrown' = err
    /\ UNCHANGED <<handlers, regCall, skipped, result>>

\* next() with index >= handlers.length does nothing.
NextPastEnd ==
    /\ pc = "running" /\ stack # <<>> /\ Top.calls > 0
    /\ ~(index < Len(handlers))
    /\ stack' = Called(stack)
    /\ UNCHANGED <<handlers, regCall, pc, index, log, skipped, result, thrown>>

\* a stage returns
StageReturn ==
    /\ pc = "running" /\ stack # <<>> /\ Top.calls = 0 /\ Top.pos > 0
    /\ stack' = Pop(stack)
    /\ skipped' = IF Top.invoked THEN skipped ELSE skipped \cup {Top.pos}
    /\ UNCHANGED <<handlers, regCall, pc, index, log, result, thrown>>

\* `return index === this.handlers.length`
HandleReturn ==
    /\ pc = "running" /\ stack # <<>> /\ Top.calls = 0 /\ Top.pos = 0
    /\ stack' = <<>>
    /\ pc' = "done"
    /\ result' = Completed(index, handlers)
    /\ UNCHANGED <<handlers, regCall, index, log, skipped, thrown>>

StageRuns == \E calls \in CallChoices : StageStart(calls)

StageFails == StageThrow("Error")

PipeInit ==
    /\ handlers = <<>>
    /\ regCall = NoCall
    /\ pc = "idle"
    /\ index = 0
    /\ stack = <<>>
    /\ log = <<>>
    /\ skipped = {}
    /\ result = FALSE
    /\ thrown = None

(***************************************************************************)
(* The path matcher (matchPath, extractParams).  A JavaScript string is a  *)
(* sequence of one-character strings.  The alphabet holds no character of  *)
(* /([.+^${}()|[\]\\])/, so the escaping step of convertToRegExp changes   *)
(* nothing here; a RegExp is the list of its tokens between ^ and $.       *)
(***************************************************************************)
Slash == "/"
WordChars == {"a", "b", "x", "y"}      \* the characters of \w in the alphabet

Max(S) == CHOOSE m \in S : \A n \in S : n <= m
Min(S) == CHOOSE m \in S : \A n \in S : m <= n

\* the length of the longest run of characters of `set` in s that starts at i
RECURSIVE RunLen(_, _, _)
RunLen(s, i, set) ==
    IF i <= Len(s) /\ s[i] \in set THEN 1 + RunLen(s, i + 1, set) ELSE 0

\* String.prototype.replace(/\/{2,}/g, "/")
RECURSIVE Collapse(_)
Collapse(s) ==
    IF s = <<>> THEN <<>>
    ELSE IF Head(s) = Slash
         THEN <<Slash>> \o Collapse(SubSeq(s, RunLen(s, 1, {Slash}) + 1, Len(s)))
         ELSE <<Head(s)>> \o Collapse(Tail(s))

\* String.prototype.replace(/\/$/, "")
StripTrailingSlash(s) ==
    IF s # <<>> /\ s[Len(s)] = Slash THEN SubSeq(s, 1, Len(s) - 1) ELSE s

\* String.prototype.replaceAll("//", "/"): one pass, left to right
RECURSIVE ReplaceAllDoubleSlash(_)
ReplaceAllDoubleSlash(s) ==
    IF Len(s) < 2 THEN s
    ELSE IF s[1] = Slash /\ s[2] = Slash
         THEN <<Slash>> \o ReplaceAllDoubleSlash(SubSeq(s, 3, Len(s)))
         ELSE <<s[1]>> \o ReplaceAllDoubleSlash(Tail(s))

\* String.prototype.replace("//", "/"): the first occurrence only
RECURSIVE ReplaceFirstDoubleSlash(_)
ReplaceFirstDoubleSlash(s) ==
    IF Len(s) < 2 THEN s
    ELSE IF s[1] = Slash /\ s[2] = Slash
         THEN <<Slash>> \o SubSeq(s, 3, Len(s))
         ELSE <<s[1]>> \o ReplaceFirstDoubleSlash(Tail(s))

\* Array.prototype.join("/")
RECURSIVE JoinSlash(_)
JoinSlash(parts) ==
    IF parts = <<>> THEN <<>>
    ELSE IF Len(parts) = 1 THEN parts[1]
    ELSE parts[1] \o <<Slash>> \o JoinSlash(Tail(parts))

\* normalizePath of matchPath
MatchNormalizePath(path) ==
    LET normalized == StripTrailingSlash(Collapse(path))
    IN  IF normalized = <<>> THEN <<Slash>> ELSE normalized

\* normalizePath of extractParams
ExtractNormalizePath(path) == Collapse(path)

Lit(c) == [t |-> "lit", c |-> c]
Param(name) == [t |-> "param", name |-> name]
Star == [t |-> "star"]
Opt(tok) == [t |-> "opt", of |-> tok]

\* the characters that `.replace(/([.+^${}()|[\]\\])/g, "\\$1")` leaves with their
\* meaning in a RegExp: `*`, rewritten to .* afterwards, and `?`
Quantifier == "?"

RECURSIVE ConvertToRegExp(_)

\* `new RegExp` reads a `?` as the quantifier of the token before it
Quantified(tok, rest) ==
    IF rest # <<>> /\ Head(rest) = Quantifier
    THEN <<Opt(tok)>> \o ConvertToRegExp(Tail(rest))
    ELSE <<tok>> \o ConvertToRegExp(rest)

\* convertToRegExp: `:(\w+)` becomes the group ([^/]+), `*` becomes .*, a `?`
\* is left as it is, every other character stands for itself.  The patterns
\* of the model hold a `?` after a literal character only.
ConvertToRegExp(path) ==
    IF path = <<>> THEN <<>>
    ELSE IF Head(path) = ":" /\ RunLen(path, 2, WordChars) > 0
         THEN LET n == RunLen(path, 2, WordChars)
              IN  Quantified(Param(SubSeq(path, 2, n + 1)),
                             SubSeq(path, n + 2, Len(path)))
         ELSE IF Head(path) = "*"
              THEN Quantified(Star, Tail(path))
              ELSE Quantified(Lit(Head(path)), Tail(path))

\* the parameter names collected by convertToRegExp, left to right
ParamNames(regExp) ==
    LET RECURSIVE names(_)
        names(i) == IF i > Len(regExp) THEN <<>>
                    ELSE IF regExp[i].t = "param"
                         THEN <<regExp[i].name>> \o names(i + 1)
                         ELSE names(i + 1)
    IN  names(1)

NoMatch == [ok |-> FALSE, groups |-> <<>>]

\* RegExp.prototype.exec of ^regExp$ on s from token i and character j: the
\* backtracking match, each quantifier greedy, with the captured groups
RECURSIVE Exec(_, _, _, _)
Exec(regExp, i, s, j) ==
    IF i > Len(regExp)
    THEN IF j > Len(s) THEN [ok |-> TRUE, groups |-> <<>>] ELSE NoMatch
    ELSE LET tok == regExp[i]
         IN  CASE tok.t = "lit" ->
                    IF j <= Len(s) /\ s[j] = tok.c
                    THEN Exec(regExp, i + 1, s, j + 1)
                    ELSE NoMatch
               [] tok.t = "star" ->
                    LET ks == {k \in 0..(Len(s) + 1 - j) :
                                   Exec(regExp, i + 1, s, j + k).ok}
                    IN  IF ks = {} THEN NoMatch
                        ELSE Exec(regExp, i + 1, s, j + Max(ks))
               [] tok.t = "param" ->
                    LET run == RunLen(s, j, {s[n] : n \in 1..Len(s)} \ {Slash})
                        ks == {k \in 1..run : Exec(regExp, i + 1, s, j + k).ok}
                    IN  IF ks = {} THEN NoMatch
                        ELSE LET k == Max(ks)
                                 rest == Exec(regExp, i + 1, s, j + k)
                             IN  [ok |-> TRUE,
                                  groups |-> <<SubSeq(s, j, j + k - 1)>> \o rest.groups]
               [] tok.t = "opt" /\ tok.of.t = "lit" ->
                    LET with == IF j <= Len(s) /\ s[j] = tok.of.c
                                THEN Exec(regExp, i + 1, s, j + 1)
                                ELSE NoMatch
                    IN  IF with.ok THEN with ELSE Exec(regExp, i + 1, s, j)

\* RegExp.prototype.test
Test(regExp, s) == Exec(regExp, 1, s, 1).ok

\* a route path: a string pattern, or a RegExp given by its tokens
StrPath(text) == [re |-> FALSE, text |-> text]
RePath(tokens) == [re |-> TRUE, text |-> tokens]

\* matchPath(prefix, routePath, requestPath)
MatchPattern(prefix, routePath) ==
    MatchNormalizePath(MatchNormalizePath(prefix) \o <<Slash>>
                           \o MatchNormalizePath(routePath.text))

RegExpSubjectPastPrefix(prefix, requestPath) ==
    LET path == MatchNormalizePath(requestPath)
        lead == MatchNormalizePath(prefix)
    IN  IF lead # <<Slash>> /\ Len(lead) < Len(path) /\ SubSeq(path, 1, Len(lead)) = lead
        THEN SubSeq(path, Len(lead) + 1, Len(path))
        ELSE path

\* what a RegExp route is tested against: `normalizePath(requestPath)`
RegExpSubject(prefix, requestPath) == MatchNormalizePath(requestPath)

MatchPath(prefix, routePath, requestPath) ==
    IF routePath.re
    THEN Test(routePath.text, RegExpSubject(prefix, requestPath))
    ELSE Test(ConvertToRegExp(MatchPattern(prefix, routePath)),
              MatchNormalizePath(requestPath))

\* `extractedParams[params[i - 1]] = match[i]` for i = 1 .. match.length - 1
ParamsObjectShifted(names, groups) ==
    LET keys == {names[i] : i \in 1..Len(names)}
    IN  [n \in keys |->
            LET i == Max({k \in 1..Len(names) : names[k] = n})
            IN  groups[(i % Len(groups)) + 1]]

ParamsObject(names, groups) ==
    LET keys == {names[i] : i \in 1..Len(groups)}
    IN  [n \in keys |-> groups[Max({i \in 1..Len(groups) : names[i] = n})]]

\* `params[`param${i}`] = match[i]`
NumberedParams(groups) == [i \in 1..Len(groups) |-> groups[i]]

NoParams == <<>>

\* extractParams(prefix, routePath, requestPath)
ExtractPattern(prefix, routePath) ==
    ExtractNormalizePath(ExtractNormalizePath(prefix)
                             \o ExtractNormalizePath(routePath.text))

ExtractParams(prefix, routePath, requestPath) ==
    IF routePath.re
    THEN LET match == Exec(routePath.text, 1, requestPath, 1)
         IN  IF match.ok THEN NumberedParams(match.groups) ELSE NoParams
    ELSE LET regExp == ConvertToRegExp(ExtractPattern(prefix, routePath))
             match == Exec(regExp, 1, requestPath, 1)
         IN  IF match.ok
             THEN ParamsObject(ParamNames(regExp), match.groups)
             ELSE NoParams

(***************************************************************************)
(* The Router tree: add (and get, post, ...), appendChild, lookupPath.     *)
(***************************************************************************)
SeqsUpTo(S, n) == UNION {[1..k -> S] : k \in 1..n}

\* "/" + segs[1] + "/" + segs[2] + ...
RECURSIVE FromSegs(_)
FromSegs(segs) ==
    IF segs = <<>> THEN <<>> ELSE <<Slash>> \o Head(segs) \o FromSegs(Tail(segs))

Root == 1
Routers == 1..MaxRouters
Methods == {"GET", "POST"}

Route(method, path) == [method |-> method, path |-> path]

NotFound == [found |-> FALSE]
Found(owner, pos, params, parents) ==
    [found |-> TRUE, owner |-> owner, pos |-> pos, params |-> params,
     parents |-> parents]

\* `(parents || []).map((p) => p.prefix).join("/").replaceAll("//", "/")`
ParentPrefix(parents) ==
    ReplaceAllDoubleSlash(JoinSlash([i \in 1..Len(parents) |-> prefixOf[parents[i]]]))

\* `(parentPrefix ? `${parentPrefix}/${this.prefix}` : this.prefix).replace("//", "/")`
FullPrefixOwnOnly(r, parents) == prefixOf[r]

FullPrefix(r, parents) ==
    LET parentPrefix == ParentPrefix(parents)
    IN  ReplaceFirstDoubleSlash(
            IF parentPrefix # <<>>
            THEN parentPrefix \o <<Slash>> \o prefixOf[r]
            ELSE prefixOf[r])

\* `matchPath(fullPrefix, route.path, path) && route.method === method`
RouteAnswersAnyMethod(fullPrefix, route, method, path) ==
    MatchPath(fullPrefix, route.path, path)

RouteAnswers(fullPrefix, route, method, path) ==
    MatchPath(fullPrefix, route.path, path) /\ route.method = method

\* lookupPath(method, path, parents) on router r; an absent `parents` is the
\* empty list, which the code treats alike
WithParentFirst(parents, r) == <<r>> \o parents

\* `parents ? [...parents, this] : [this]`
WithParent(parents, r) == Append(parents, r)

RECURSIVE LookupPath(_, _, _, _)
LookupInChildren(r, method, path, parents) ==
    LET results == [i \in 1..Len(children[r]) |->
                       LookupPath(children[r][i], method, path, WithParent(parents, r))]
        hits == {i \in 1..Len(children[r]) : results[i].found}
    IN  IF hits = {} THEN NotFound ELSE results[Min(hits)]

LookupPath(r, method, path, parents) ==
    LET fullPrefix == FullPrefix(r, parents)
        hits == {i \in 1..Len(routes[r]) :
                    RouteAnswers(fullPrefix, routes[r][i], method, path)}
    IN  IF hits # {}
        THEN Found(r, Min(hits),
                   ExtractParams(fullPrefix, routes[r][Min(hits)].path, path),
                   parents)
        ELSE LookupInChildren(r, method, path, parents)

ChildPrefixes == {<<>>, <<Slash, "b">>}
RoutePatterns == {<<Slash, "x">>, <<Slash, ":", "y">>}
RequestPaths == {<<Slash, "x">>, <<Slash, "b", Slash, "x">>}

RECURSIVE RoutesUpTo(_)
RoutesUpTo(r) == IF r = 0 THEN 0 ELSE Len(routes[r]) + RoutesUpTo(r - 1)

\* the registration calls made so far: appendChild and add
Registrations == (made - 1) + RoutesUpTo(MaxRouters)

\* `new Router()`
TreeInit ==
    /\ made = 1
    /\ prefixOf = [r \in Routers |-> <<>>]
    /\ children = [r \in Routers |-> <<>>]
    /\ routes = [r \in Routers |-> <<>>]

NoLookup == [method |-> None]

\* `new Router(prefix)` and `parent.appendChild(router)`
AppendChild ==
    /\ lk = NoLookup
    /\ made < MaxRouters /\ Registrations < MaxRegs
    /\ \E parent \in 1..made, childPrefix \in ChildPrefixes :
         /\ made' = made + 1
         /\ prefixOf' = [prefixOf EXCEPT ![made + 1] = childPrefix]
         /\ children' = [children EXCEPT ![parent] = Append(@, made + 1)]
    /\ UNCHANGED <<routes, lk>>

\* add(method, path, handler), with its wrappers get, post, ...
AddRoute ==
    /\ lk = NoLookup
    /\ Registrations < MaxRegs
    /\ \E r \in 1..made, method \in Methods, pattern \in RoutePatterns :
         routes' = [routes EXCEPT ![r] = Append(@, Route(method, StrPath(pattern)))]
    /\ UNCHANGED <<made, prefixOf, children, lk>>

\* lookupPath(method, path) on the root router
LookupIn(paths) ==
    /\ lk = NoLookup
    /\ \E method \in Methods, path \in paths :
         lk' = [method |-> method, path |-> path,
                res |-> LookupPath(Root, method, path, <<>>)]
    /\ UNCHANGED treeVars

Lookup == LookupIn(RequestPaths)

\* a chain of routers, each the only child of the one before, with one GET
\* route on the innermost
ChainPrefixes == {<<>>, <<Slash>>, <<Slash, "a">>, <<"b">>}
ChainPatterns == {<<Slash, "x">>, <<"x">>, <<Slash, ":", "y">>}
ChainSegs == {<<"a">>, <<"b">>, <<"a", "b">>}
ChainPaths ==
    {<<Slash, "x">>} \cup
        {FromSegs(q) \o <<Slash, "x">> : q \in SeqsUpTo(ChainSegs, MaxRouters)}

ChainInit ==
    /\ made \in Routers
    /\ prefixOf \in [Routers -> ChainPrefixes]
    /\ \A r \in Routers : r > made => prefixOf[r] = <<>>
    /\ children = [r \in Routers |-> IF r < made THEN <<r + 1>> ELSE <<>>]
    /\ \E pattern \in ChainPatterns :
         routes = [r \in Routers |->
                      IF r = made THEN <<Route("GET", StrPath(pattern))>> ELSE <<>>]

ChainLookup == LookupIn(ChainPaths)

\* the same chain with a RegExp route on the innermost router: /^\/x$/,
\* /^\/a\/x$/ or /^\/([^/]+)\/x$/
ChainRegExps ==
    {<<Lit(Slash), Lit("x")>>,
     <<Lit(Slash), Lit("a"), Lit(Slash), Lit("x")>>,
     <<Lit(Slash), Param(<<"1">>), Lit(Slash), Lit("x")>>}

RegExpChainInit ==
    /\ made \in Routers
    /\ prefixOf \in [Routers -> ChainPrefixes]
    /\ \A r \in Routers : r > made => prefixOf[r] = <<>>
    /\ children = [r \in Routers |-> IF r < made THEN <<r + 1>> ELSE <<>>]
    /\ \E regExp \in ChainRegExps :
         routes = [r \in Routers |->
                      IF r = made THEN <<Route("GET", RePath(regExp))>> ELSE <<>>]

\* request paths as they are received, with a trailing or a doubled '/' too
RegExpChainPaths ==
    ChainPaths \cup {<<Slash, "x", Slash>>, <<Slash, Slash, "a", Slash, "x">>}

RegExpChainLookup == LookupIn(RegExpChainPaths)

TreeIdle == TreeInit

(***************************************************************************)
(* The inputs of the path matcher: patterns and paths built of segments.   *)
(***************************************************************************)
PatternSegs == {<<"a">>, <<":", "x">>, <<":", "y">>, <<"*">>}
PathSegs == {<<"a">>, <<"b">>}

Patterns == {FromSegs(q) : q \in SeqsUpTo(PatternSegs, MaxSegs)}
Paths ==
    {FromSegs(q) : q \in SeqsUpTo(PathSegs, MaxSegs)}
        \cup {FromSegs(q) \o <<Slash>> : q \in SeqsUpTo(PathSegs, MaxSegs)}
MatcherPrefixes == {<<>>, <<Slash>>, <<Slash, "a">>}

MatcherInit ==
    /\ mPrefix \in MatcherPrefixes
    /\ mPattern \in Patterns
    /\ mPath \in Paths
    /\ mMatched = <<>>
    /\ mParams = <<>>

MatcherIdle ==
    /\ mPrefix = <<>>
    /\ mPattern = <<>>
    /\ mPath = <<>>
    /\ mMatched = <<>>
    /\ mParams = <<>>

\* string patterns that hold a `?` as well
QuantPatternSegs == PatternSegs \cup {<<"b", Quantifier>>, <<"a", "b", Quantifier>>}
QuantPatterns == {FromSegs(q) : q \in SeqsUpTo(QuantPatternSegs, MaxSegs)}

PatternInit ==
    /\ mPrefix \in MatcherPrefixes
    /\ mPattern \in QuantPatterns
    /\ mPath \in Paths
    /\ mMatched = <<>>
    /\ mParams = <<>>

\* matchPath(prefix, routePath, requestPath)
ApplyMatchPath ==
    /\ mMatched = <<>>
    /\ mMatched' = <<MatchPath(mPrefix, StrPath(mPattern), mPath)>>
    /\ UNCHANGED <<mPrefix, mPattern, mPath, mParams>>

\* extractParams(prefix, routePath, requestPath)
ApplyExtractParams ==
    /\ mMatched # <<>> /\ mParams = <<>>
    /\ mParams' = <<ExtractParams(mPrefix, StrPath(mPattern), mPath)>>
    /\ UNCHANGED <<mPrefix, mPattern, mPath, mMatched>>

(***************************************************************************)
(* Router.handle(ctx) on router 1, the root of a chain of nested routers.  *)
(* The call is followed from one await to the next; the pipelines it runs  *)
(* are run by the actions of Pipeline.handle above.                        *)
(***************************************************************************)
StageNames == <<"A", "B", "C", "D">>
Stages(n) == SubSeq(StageNames, 1, n)

RECURSIVE StagesUpTo(_, _)
StagesUpTo(n, r) == IF r = 0 THEN 0 ELSE n[r].pre + n[r].post + StagesUpTo(n, r - 1)

\* what a stage may throw: an Error, an HTTPError, a value that is no Error
Throwables == {"Error", "HTTPError", "value"}
\* what a route handler may do: return a truthy value, return a falsy one, throw
HandlerChoices == {"truthy", "falsy"} \cup Throwables

Undefined == [kind |-> "undefined"]
StageData == [kind |-> "stage"]
Returned == [kind |-> "returned"]
ErrorBody(message, status, internal) ==
    [kind |-> "error", error |-> message, statusCode |-> status, internal |-> internal]

\* responseFactory()
ResponseFactory == [status |-> -1, data |-> Undefined]

\* a stage that answers the request itself, as the rate-limit middleware does
StageWrote == [status |-> 429, data |-> StageData]

NoError == [kind |-> None, statusCode |-> 0, message |-> <<>>]
ThrownError(kind) ==
    [kind |-> kind,
     statusCode |-> IF kind = "HTTPError" THEN 403 ELSE 0,
     message |-> IF kind = "HTTPError" THEN <<"Forbidden">> ELSE <<"boom">>]

\* `Route not found: ${context.req.method} ${context.req.path}`
RouteNotFoundBare(method, path) == <<"Route not found">>

RouteNotFound(method, path) == <<"Route not found: ", method, " ", path>>

\* new NotFoundError(message)
NotFoundError(message) == [kind |-> "HTTPError", statusCode |-> 404, message |-> message]

\* `error instanceof HTTPError`
IsHTTPError(e) == e.kind = "HTTPError"

\* `isHTTPError ? error.statusCode : 500`
ErrorStatusUnwritten(e) == -1

ErrorStatusAlways500(e) == 500

ErrorStatus(e) == IF IsHTTPError(e) THEN e.statusCode ELSE 500

\* `isHTTPError ? error.message : "Internal Server Error"`
ErrorMessage(e) == IF IsHTTPError(e) THEN e.message ELSE <<"Internal Server Error">>

\* `error.name` of null or undefined and `error.stack.split` of a value
\* without a stack throw a TypeError
DetailsThrow(e) == e.kind = "value"

\* DefaultStatus[ctx.req.method]
DefaultStatusOfGet(method) == 200

DefaultStatus(method) ==
    CASE method = "GET" -> 200
      [] method = "POST" -> 201
      [] OTHER -> 204

NoRequest == [method |-> None, path |-> <<>>]
NoReturn == [kind |-> None, parents |-> <<>>]
\* `{ data: context.res.data, parents }`
HandleResult(parents) == [kind |-> "result", parents |-> parents]
\* what the catch callback returns: ctx.res.data, which has no `parents`
CaughtData == [kind |-> "data", parents |-> <<>>]
Rejection == [kind |-> "rejected", parents |-> <<>>]

NotRun == [settled |-> FALSE, handled |-> FALSE, short |-> FALSE]

Ev(phase, r) == [phase |-> phase, router |-> r, during |-> phase]
WriteEv(r, during) == [phase |-> "write", router |-> r, during |-> during]
\* a pipeline has ended after a stage of it returned without calling next
ShortEv(r, during) == [phase |-> "short", router |-> r, during |-> during]

RECURSIVE Nested(_)
Nested(n) == IF n = 0 THEN <<>> ELSE <<Slash, "b">> \o Nested(n - 1)

\* the paths of the routes of the chain, and one path of no route
\* HTTPMethod
HTTPMethods == {"GET", "POST", "PUT", "PATCH", "DELETE", "OPTIONS", "HEAD"}
MethodList == <<"GET", "POST", "PUT", "PATCH", "DELETE", "OPTIONS", "HEAD">>

RouterPaths ==
    {Nested(n) \o <<Slash, "x">> : n \in 0..(MaxRouters - 1)} \cup {<<Slash, "y">>}

RouterIdle ==
    /\ pipes = [r \in Routers |-> [pre |-> <<>>, post |-> <<>>]]
    /\ isDev = FALSE
    /\ rpc = "idle"
    /\ req = NoRequest
    /\ res = ResponseFactory
    /\ error = NoError
    /\ found = NotFound
    /\ parentAt = 0
    /\ ret = NoReturn
    /\ events = <<>>
    /\ preRan = NotRun
    /\ ctxParams = NoParams

\* a chain of routers under the prefixes "", "/b", "/b", ..., each with the
\* route GET /x, the root with a route /x for every method
RouterTreeInit ==
    /\ made = MaxRouters
    /\ prefixOf = [r \in Routers |-> IF r = Root THEN <<>> ELSE <<Slash, "b">>]
    /\ children = [r \in Routers |-> IF r < made THEN <<r + 1>> ELSE <<>>]
    /\ routes = [r \in Routers |->
                    IF r = Root
                    THEN [i \in DOMAIN MethodList |->
                             Route(MethodList[i], StrPath(<<Slash, "x">>))]
                    ELSE <<Route("GET", StrPath(<<Slash, "x">>))>>]

\* use() and usePost() calls made on the routers before the request
RouterInit ==
    /\ \E n \in [Routers -> [pre : 0..MaxStages, post : 0..MaxStages]] :
         /\ StagesUpTo(n, MaxRouters) <= MaxStages
         /\ pipes = [r \in Routers |->
                        [pre |-> Stages(n[r].pre), post |-> Stages(n[r].post)]]
    /\ isDev \in BOOLEAN
    /\ rpc = "idle"
    /\ req = NoRequest
    /\ res = ResponseFactory
    /\ error = NoError
    /\ found = NotFound
    /\ parentAt = 0
    /\ ret = NoReturn
    /\ events = <<>>
    /\ preRan = NotRun
    /\ ctxParams = NoParams

Settled == pc \in {"done", "rejected"}

PipeUntouched == UNCHANGED pipeVars

\* the router whose pipeline is running
PhaseRouter ==
    CASE rpc = "parentPre" -> found.parents[parentAt]
      [] rpc = "parentPost" -> ret.parents[parentAt]
      [] OTHER -> Root

\* `this.pipeline`
OwnPipeline == pipes[Root].pre

\* `this.postPipeline`
OwnPostPipelineLeftOut == <<>>

OwnPostPipeline == pipes[Root].post

Request(method, path) == [method |-> method, path |-> path]

\* the requests given to the chain of routers: GET for every path, the
\* other methods for /x
RouterRequests ==
    {Request("GET", path) : path \in RouterPaths}
        \cup {Request(method, <<Slash, "x">>) : method \in HTTPMethods}

\* handle(ctx): `this._handle(ctx)` up to `await this.pipeline.handle(context)`
Handle(requests) ==
    /\ rpc = "idle"
    /\ req' \in requests
    /\ rpc' = "pre"
    /\ HandleOn(OwnPipeline)
    /\ events' = <<Ev("pre", Root)>>
    /\ UNCHANGED <<ctxParams, pipes, isDev, res, error, found, parentAt, ret, preRan>>

RouterHandle == Handle(RouterRequests)

\* the middlewares of src/middlewares, by Middleware.name
MiddlewareNames == {"cors", "rate-limit", "cache-before", "cache-after"}

\* the name of the stage that the next call of next() starts
NextStage ==
    IF pc = "running" /\ index < Len(handlers) THEN handlers[index + 1] ELSE NoName

\* a stage of the running pipeline is started; it may write the response
RouterStageRuns ==
    /\ rpc \in {"pre", "parentPre", "parentPost", "post"}
    /\ NextStage \notin MiddlewareNames
    /\ \E calls \in CallChoices, writes \in BOOLEAN :
         /\ StageStart(calls)
         /\ res' = IF writes THEN StageWrote ELSE res
         /\ events' = IF writes THEN Append(events, WriteEv(PhaseRouter, rpc))
                      ELSE events
    /\ UNCHANGED <<ctxParams, pipes, isDev, rpc, req, error, found, parentAt, ret, preRan>>

\* a stage of the running pipeline throws
RouterStageFails ==
    /\ rpc \in {"pre", "parentPre", "parentPost", "post"}
    /\ NextStage \notin MiddlewareNames
    /\ \E e \in Throwables : StageThrow(e)
    /\ UNCHANGED routerVars

\* a middleware has answered the request itself, without calling next
AnsweredEv(name, r, during) == [phase |-> name, router |-> r, during |-> during]

\* the handler of CorsMiddleware (the headers it sets are left out):
\* `if (req.method === "OPTIONS") { res.status = 204; return; } await next();`
CorsStageRuns ==
    /\ rpc \in {"pre", "parentPre", "parentPost", "post"}
    /\ NextStage = "cors"
    /\ IF req.method = "OPTIONS"
       THEN /\ StageStart(0)
            /\ res' = [res EXCEPT !.status = 204]
            /\ events' = Append(events, AnsweredEv("cors", PhaseRouter, rpc))
       ELSE /\ StageStart(1)
            /\ UNCHANGED <<res, events>>
    /\ UNCHANGED <<ctxParams, pipes, isDev, rpc, req, error, found, parentAt, ret, preRan>>

\* use(CorsMiddleware(settings)) among the use() calls made on the root
CorsInit ==
    /\ \E n \in 0..(MaxStages - 1), at \in 0..(MaxStages - 1) :
         /\ at <= n
         /\ pipes = [r \in Routers |->
                        IF r = Root
                        THEN [pre |-> Splice(Stages(n), at, "cors"), post |-> <<>>]
                        ELSE [pre |-> <<>>, post |-> <<>>]]
    /\ isDev \in BOOLEAN
    /\ rpc = "idle"
    /\ req = NoRequest
    /\ res = ResponseFactory
    /\ error = NoError
    /\ found = NotFound
    /\ parentAt = 0
    /\ ret = NoReturn
    /\ events = <<>>
    /\ preRan = NotRun
    /\ ctxParams = NoParams

\* OPTIONS and GET requests for the paths of the routes and for a path of no
\* route
CorsRequests ==
    {Request(method, path) : method \in {"OPTIONS", "GET"}, path \in RouterPaths}

CorsHandle == Handle(CorsRequests)

\* .finally(async () => { await this.postPipeline.handle(ctx); })
Finally(done) ==
    /\ rpc' = "post"
    /\ HandleOn(OwnPostPipeline)
    /\ events' = events \o done \o <<Ev("post", Root)>>

\* _handle rejects with what the pipeline it awaited rejected with
Rejects ==
    /\ error' = ThrownError(thrown)
    /\ rpc' = "catch"
    /\ PipeUntouched
    /\ UNCHANGED <<found, parentAt, ret, events>>

\* the loop over the parents is over: `await route.handle(context)` is next
ToRoute(done) ==
    /\ rpc' = "route"
    /\ events' = events \o done
    /\ PipeUntouched
    /\ UNCHANGED <<error, ret>>

\* `await parent.pipeline.handle(context)` for the parent at position i
ToParentPre(parents, i, done) ==
    /\ rpc' = "parentPre"
    /\ parentAt' = i
    /\ HandleOn(pipes[parents[i]].pre)
    /\ events' = events \o done \o <<Ev("parentPre", parents[i])>>
    /\ UNCHANGED <<error, ret>>

\* _handle after `await this.pipeline.handle(context)`, up to its next await
PreSettled ==
    /\ rpc = "pre" /\ Settled
    /\ IF pc = "rejected"
       THEN Rejects /\ UNCHANGED preRan
       ELSE /\ preRan' = [settled |-> TRUE, handled |-> result, short |-> skipped # {}]
            /\ IF ~result
               THEN /\ ret' = HandleResult(<<>>)
                    /\ rpc' = "then"
                    /\ PipeUntouched
                    /\ UNCHANGED <<error, found, parentAt, events>>
               ELSE LET looked == LookupPath(Root, req.method, req.path, <<>>)
                    IN  /\ found' = looked
                        /\ IF ~looked.found
                           THEN /\ error' = NotFoundError(RouteNotFound(req.method, req.path))
                                /\ rpc' = "catch"
                                /\ events' = Append(events, Ev("lookup", Root))
                                /\ PipeUntouched
                                /\ UNCHANGED <<parentAt, ret>>
                           ELSE IF looked.parents = <<>>
                                THEN ToRoute(<<Ev("lookup", Root)>>) /\ UNCHANGED parentAt
                                ELSE ToParentPre(looked.parents, 1, <<Ev("lookup", Root)>>)
    /\ UNCHANGED <<ctxParams, pipes, isDev, req, res>>

\* _handle after `await parent.pipeline.handle(context)`, up to its next await
ParentPreSettled ==
    /\ rpc = "parentPre" /\ Settled
    /\ IF pc = "rejected"
       THEN Rejects
       ELSE LET short == IF skipped # {}
                         THEN <<ShortEv(found.parents[parentAt], rpc)>>
                         ELSE <<>>
            IN  IF ~result
                THEN /\ ret' = HandleResult(found.parents)
                     /\ rpc' = "then"
                     /\ events' = events \o short
                     /\ PipeUntouched
                     /\ UNCHANGED <<error, parentAt>>
                ELSE IF parentAt < Len(found.parents)
                     THEN ToParentPre(found.parents, parentAt + 1, short)
                     ELSE ToRoute(short) /\ UNCHANGED parentAt
    /\ UNCHANGED <<ctxParams, pipes, isDev, req, res, found, preRan>>

\* values that a route handler may return
Null == [kind |-> "null"]
Bool(v) == [kind |-> "boolean", v |-> v]
Num(v) == [kind |-> "number", v |-> v]
Str(v) == [kind |-> "string", v |-> v]
Arr(v) == [kind |-> "array", v |-> v]
Obj(keys) == [kind |-> "object", v |-> keys]

JsValues ==
    {Undefined, Null, Bool(FALSE), Bool(TRUE), Num(0), Num(1), Str(<<>>), Str(<<"a">>),
     Arr(<<>>), Arr(<<1>>), Obj({}), Obj({"a"})}

\* the condition of `if (response)`: undefined, null, false, 0 and "" are
\* falsy, every other value is truthy
ToBoolean(value) ==
    CASE value.kind \in {"undefined", "null"} -> FALSE
      [] value.kind = "boolean" -> value.v
      [] value.kind = "number" -> value.v # 0
      [] value.kind = "string" -> value.v # <<>>
      [] OTHER -> TRUE

MergeAlways(response, value) == [response EXCEPT !.data = value]

\* `if (response) { context.res.data = response; }`
Merge(response, value) ==
    IF ToBoolean(value) THEN [response EXCEPT !.data = value] ELSE response

\* `context.params = params; const response = await route.handle(context);
\*  if (response) { context.res.data = response; }`
RouteHandle ==
    /\ rpc = "route"
    /\ \E does \in HandlerChoices :
         IF does \in Throwables
         THEN /\ error' = ThrownError(does)
              /\ rpc' = "catch"
              /\ UNCHANGED <<res, ret>>
         ELSE /\ res' = Merge(res, IF does = "truthy" THEN Returned ELSE Undefined)
              /\ ret' = HandleResult(found.parents)
              /\ rpc' = "then"
              /\ UNCHANGED error
    /\ ctxParams' = found.params
    /\ events' = Append(events, Ev("route", found.owner))
    /\ PipeUntouched
    /\ UNCHANGED <<pipes, isDev, req, found, parentAt, preRan>>

\* CorsMiddleware(settings = {}): no setting is given
NoCorsSettings ==
    [origin |-> Undefined, methods |-> Undefined, allowedHeaders |-> Undefined,
     exposedHeaders |-> Undefined, credentials |-> Undefined, maxAge |-> Undefined]

\* responseFactory(): `headers: {}`
NoHeaders == [name \in {} |-> Undefined]

CorsIdle ==
    /\ corsSettings = NoCorsSettings
    /\ resHeaders = NoHeaders

\* the settings in the order in which the handler reads them
CorsSettingNames ==
    <<"origin", "methods", "allowedHeaders", "exposedHeaders", "credentials", "maxAge">>

\* the header that each setting stands for
CorsHeaderName ==
    [origin |-> "Access-Control-Allow-Origin",
     methods |-> "Access-Control-Allow-Methods",
     allowedHeaders |-> "Access-Control-Allow-Headers",
     exposedHeaders |-> "Access-Control-Expose-Headers",
     credentials |-> "Access-Control-Allow-Credentials",
     maxAge |-> "Access-Control-Max-Age"]

\* Array.prototype.join(", ")
RECURSIVE JoinComma(_)
JoinComma(items) ==
    IF items = <<>> THEN <<>>
    ELSE IF Len(items) = 1 THEN <<items[1]>>
    ELSE <<items[1], ", ">> \o JoinComma(Tail(items))

DecimalDigits == <<"0", "1", "2", "3", "4", "5", "6", "7", "8", "9">>

\* Number.prototype.toString() of a natural number
RECURSIVE NumberToString(_)
NumberToString(n) ==
    IF n < Len(DecimalDigits) THEN <<DecimalDigits[n + 1]>>
    ELSE NumberToString(n \div Len(DecimalDigits))
             \o <<DecimalDigits[(n % Len(DecimalDigits)) + 1]>>

\* what the handler writes for a setting: `settings.origin`,
\* `settings.methods.join(", ")`, "true", `settings.maxAge.toString()`
CorsHeaderValue(setting, value) ==
    CASE setting = "origin" -> value
      [] setting \in {"methods", "allowedHeaders", "exposedHeaders"} ->
             Str(JoinComma(value.v))
      [] setting = "credentials" -> Str(<<"true">>)
      [] setting = "maxAge" -> Str(NumberToString(value.v))

IsSet(value) == value # Undefined

\* `if (settings.origin) { headers[...] = ... }` and the five that follow
CorsWrites(settings, test(_)) ==
    {CorsSettingNames[i] : i \in {k \in DOMAIN CorsSettingNames :
                                     test(settings[CorsSettingNames[k]])}}

WithCorsHeaders(headers, settings) ==
    LET written == CorsWrites(settings, ToBoolean)
        names == {CorsHeaderName[setting] : setting \in written}
    IN  [name \in DOMAIN headers \cup names |->
            IF name \in names
            THEN LET setting == CHOOSE x \in written : CorsHeaderName[x] = name
                 IN  CorsHeaderValue(setting, settings[setting])
            ELSE headers[name]]

CorsEv(r, during, headers) ==
    [phase |-> "cors-headers", router |-> r, during |-> during, headers |-> headers]

\* the handler of CorsMiddleware: the headers of the settings, then
\* `if (req.method === "OPTIONS") { res.status = 204; return; } await next();`
CorsStage ==
    /\ rpc \in {"pre", "parentPre", "parentPost", "post"}
    /\ NextStage = "cors"
    /\ resHeaders' = WithCorsHeaders(resHeaders, corsSettings)
    /\ IF req.method = "OPTIONS"
       THEN /\ StageStart(0)
            /\ res' = [res EXCEPT !.status = 204]
            /\ events' = events \o <<CorsEv(PhaseRouter, rpc, resHeaders'),
                                      AnsweredEv("cors", PhaseRouter, rpc)>>
       ELSE /\ StageStart(1)
            /\ res' = res
            /\ events' = Append(events, CorsEv(PhaseRouter, rpc, resHeaders'))
    /\ UNCHANGED <<ctxParams, pipes, isDev, rpc, req, error, found, parentAt, ret, preRan,
                   corsSettings>>

\* the settings of the test "CorsMiddleware should attach cors headers", every
\* setting, no setting, and settings given with a falsy value
CorsSettingsChoices ==
    {[NoCorsSettings EXCEPT !.allowedHeaders = Arr(<<"X-Test">>), !.maxAge = Num(12),
                            !.methods = Arr(<<"GET", "POST">>), !.origin = Str(<<"*">>)],
     [origin |-> Str(<<"*">>), methods |-> Arr(<<"GET">>),
      allowedHeaders |-> Arr(<<"X-Test">>), exposedHeaders |-> Arr(<<"X-Id", "X-Test">>),
      credentials |-> Bool(TRUE), maxAge |-> Num(5)],
     NoCorsSettings,
     [NoCorsSettings EXCEPT !.origin = Str(<<"*">>), !.maxAge = Num(0)],
     [NoCorsSettings EXCEPT !.credentials = Bool(FALSE), !.methods = Arr(<<>>)],
     [NoCorsSettings EXCEPT !.origin = Str(<<>>)]}

CorsHeadersInit ==
    /\ corsSettings \in CorsSettingsChoices
    /\ resHeaders = NoHeaders

\* the response when the route handler is called: as responseFactory() made
\* it, or with a status, a body or a header that a stage of a pre-pipeline or
\* the route handler itself has written
ResponsesAtRoute ==
    [status : {-1, 200, 404}, data : {Undefined, StageData, Str(<<"b">>)},
     headers : {{}, {"X-Stage"}}]

ReturnEv(r, value, before) ==
    [phase |-> "route", router |-> r, during |-> "route", returned |-> value,
     before |-> before]

\* _handle() of a router with empty pipelines, at the call of the handler of
\* its route for the request
MergeInit ==
    /\ pipes = [r \in Routers |-> [pre |-> <<>>, post |-> <<>>]]
    /\ isDev \in BOOLEAN
    /\ rpc = "route"
    /\ req \in {Request(method, <<Slash, "x">>) : method \in {"GET", "POST"}}
    /\ res \in ResponsesAtRoute
    /\ error = NoError
    /\ found = Found(Root, 1, NoParams, <<>>)
    /\ parentAt = 0
    /\ ret = NoReturn
    /\ events = <<Ev("pre", Root)>>
    /\ preRan = NotRun
    /\ ctxParams = NoParams

\* RouteHandle for a handler that returns `value`
RouteReturns ==
    /\ rpc = "route"
    /\ \E value \in JsValues :
         /\ res' = Merge(res, value)
         /\ events' = Append(events, ReturnEv(found.owner, value, res))
    /\ ret' = HandleResult(found.parents)
    /\ rpc' = "then"
    /\ ctxParams' = found.params
    /\ PipeUntouched
    /\ UNCHANGED <<error, pipes, isDev, req, found, parentAt, preRan>>

\* the .catch callback of handle()
Catch ==
    /\ rpc = "catch"
    /\ LET status == ErrorStatus(error)
           message == ErrorMessage(error)
           details == ~IsHTTPError(error) /\ isDev
       IN  IF details /\ DetailsThrow(error)
           THEN /\ res' = [status |-> status, data |-> ErrorBody(message, status, FALSE)]
                /\ ret' = Rejection
                /\ Finally(<<Ev("catch", Root)>>)
           ELSE /\ res' = [status |-> status, data |-> ErrorBody(message, status, details)]
                /\ ret' = CaughtData
                /\ rpc' = "then"
                /\ events' = Append(events, Ev("catch", Root))
                /\ PipeUntouched
    /\ UNCHANGED <<ctxParams, pipes, isDev, req, error, found, parentAt, preRan>>

\* the .then callback of handle(), up to its first await
Then ==
    /\ rpc = "then"
    /\ res' = IF res.status = -1
              THEN [res EXCEPT !.status = DefaultStatus(req.method)]
              ELSE res
    /\ IF ret.parents # <<>>
       THEN /\ rpc' = "parentPost"
            /\ parentAt' = 1
            /\ HandleOn(pipes[ret.parents[1]].post)
            /\ events' = events \o <<Ev("then", Root), Ev("parentPost", ret.parents[1])>>
       ELSE Finally(<<Ev("then", Root)>>) /\ UNCHANGED parentAt
    /\ UNCHANGED <<ctxParams, pipes, isDev, req, error, found, ret, preRan>>

\* the .then callback after `await parent.postPipeline.handle(ctx)`
ParentPostSettled ==
    /\ rpc = "parentPost" /\ Settled
    /\ IF pc = "rejected"
       THEN Finally(<<>>) /\ ret' = Rejection /\ UNCHANGED parentAt
       ELSE IF parentAt < Len(ret.parents)
            THEN /\ rpc' = "parentPost"
                 /\ parentAt' = parentAt + 1
                 /\ HandleOn(pipes[ret.parents[parentAt + 1]].post)
                 /\ events' = Append(events, Ev("parentPost", ret.parents[parentAt + 1]))
                 /\ UNCHANGED ret
            ELSE Finally(<<>>) /\ UNCHANGED <<parentAt, ret>>
    /\ UNCHANGED <<ctxParams, pipes, isDev, req, res, error, found, preRan>>

\* the .finally callback after `await this.postPipeline.handle(ctx)`: the
\* promise of handle() settles
PostSettled ==
    /\ rpc = "post" /\ Settled
    /\ rpc' = IF pc = "rejected" \/ ret.kind = "rejected" THEN "rejected" ELSE "done"
    /\ PipeUntouched
    /\ UNCHANGED <<ctxParams, pipes, isDev, req, res, error, found, parentAt, ret, events, preRan>>

(***************************************************************************)
(* A router that serves one request after another, with the middlewares    *)
(* of src/middlewares in its pipelines.  Timers fire between two requests: *)
(* a request whose stages and handler do not wait for I/O is served        *)
(* without the event loop taking a timer in between.                       *)
(***************************************************************************)
Addresses == {"127.0.0.1", "10.0.0.1"}
NoIp == ""
Ips == Addresses \cup {NoIp}

\* `req.ip || "127.0.0.1"`
AddressOf(ip) == IF ip = NoIp THEN "127.0.0.1" ELSE ip

\* `new Map<string, number>()`, and `hits.clear()`
NoHits == [a \in Addresses |-> 0]

ClearedButOne(h) == [a \in Addresses |-> IF a = "127.0.0.1" THEN 0 ELSE h[a]]

\* `hits.clear()`
Cleared(h) == NoHits

\* what has been counted of the requests served: how many there were, how
\* many of each address came to the rate limiter since its timer fired last,
\* the addresses rejected since then and those rejected before it fired
NoneServed ==
    [requests |-> 0, arrivals |-> [a \in Addresses |-> 0],
     rejecting |-> {}, wasRejecting |-> {}, expired |-> {}]

Arrived(counts, a, limited) ==
    [counts EXCEPT !.arrivals[a] = @ + 1,
                   !.rejecting = IF limited THEN @ \cup {a} ELSE @]

TimerFired(counts) ==
    [counts EXCEPT !.arrivals = [a \in Addresses |-> 0],
                   !.rejecting = {},
                   !.wasRejecting = counts.rejecting]

RateEv(r, during, address, nth, limited) ==
    [phase |-> "rate-limit", router |-> r, during |-> during,
     address |-> address, nth |-> nth, limited |-> limited]

\* an optional setting: left out, or given with a value
Unset(none) == [given |-> FALSE, value |-> none]
Given(v) == [given |-> TRUE, value |-> v]

\* `settings.maxItems &&`, `if (settings.maxLength)`: given and not 0
TruthyNumber(opt) == opt.given /\ opt.value # 0

\* `settings.methods && !settings.methods.includes(method)` is false
MethodCached(settings, method) ==
    ~settings.methods.given \/ method \in settings.methods.value

\* `${method} ${req.fullURL}`: no method holds a space, so two keys are
\* equal exactly when the methods and the URLs are
CacheKey(r) == <<r.method, r.path>>

\* `{ data: res.data, headers: res.headers, status: res.status }`; the
\* response of the model has no headers
CachedItem(r) == [data |-> r.data, status |-> r.status]

NoEntries == [k \in {} |-> Undefined]

NoTimers == [k \in {} |-> 0]

CacheSet(c, k, item) == [x \in DOMAIN c \cup {k} |-> IF x = k THEN item ELSE c[x]]

CacheDelete(c, k) == [x \in DOMAIN c \ {k} |-> c[x]]

CacheSize(c) == Cardinality(DOMAIN c)

\* JSON.stringify(item).length, counted in fields: a status, and a data
\* field unless the data is undefined (JSON.stringify leaves it out)
ItemLength(item) == IF item.data = Undefined THEN 1 ELSE 2

RECURSIVE TotalLength(_)
TotalLength(c) ==
    IF DOMAIN c = {} THEN 0
    ELSE LET k == CHOOSE x \in DOMAIN c : TRUE
         IN  ItemLength(c[k]) + TotalLength(CacheDelete(c, k))

AfterMaxItemsKeepsAll(settings, c) == c

\* `if (settings.maxItems && CACHE.size >= settings.maxItems) CACHE.clear()`
AfterMaxItems(settings, c) ==
    IF TruthyNumber(settings.maxItems) /\ CacheSize(c) >= settings.maxItems.value
    THEN NoEntries ELSE c

\* `if (settings.maxLength) { ... if (totalLength >= settings.maxLength) CACHE.clear() }`
AfterMaxLength(settings, c) ==
    IF TruthyNumber(settings.maxLength) /\ TotalLength(c) >= settings.maxLength.value
    THEN NoEntries ELSE c

StoresAlways(c, k) == TRUE

\* `if (cachedResponse) { return; }` was not taken
Stores(c, k) == k \notin DOMAIN c

NoSettings == [methods |-> Unset({}), maxItems |-> Unset(0), maxLength |-> Unset(0)]

CacheIdle ==
    /\ cacheSettings = NoSettings
    /\ cache = NoEntries
    /\ cacheTimers = NoTimers

RateIdle ==
    /\ rateMax = 0
    /\ rateCallback = FALSE
    /\ rateHits = NoHits

MiddlewaresIdle ==
    /\ reqIp = NoIp
    /\ served = NoneServed
    /\ RateIdle
    /\ CacheIdle
    /\ CorsIdle

\* the handler of RateLimitMiddleware (the headers it sets are left out).
\* What ratelimitCallback returns is returned by the handler, and the
\* pipeline drops what a handler returns.
RateStageRuns ==
    /\ rpc \in {"pre", "parentPre", "parentPost", "post"}
    /\ NextStage = "rate-limit"
    /\ LET ip == AddressOf(reqIp)
           addressHits == rateHits[ip]
           nth == served.arrivals[ip] + 1
       IN  IF addressHits >= rateMax
           THEN /\ StageStart(0)
                /\ res' = IF rateCallback THEN res ELSE [res EXCEPT !.status = 429]
                /\ events' = Append(events, RateEv(PhaseRouter, rpc, ip, nth, TRUE))
                /\ served' = Arrived(served, ip, TRUE)
                /\ UNCHANGED rateHits
           ELSE /\ rateHits' = [rateHits EXCEPT ![ip] = addressHits + 1]
                /\ StageStart(1)
                /\ events' = Append(events, RateEv(PhaseRouter, rpc, ip, nth, FALSE))
                /\ served' = Arrived(served, ip, FALSE)
                /\ UNCHANGED res
    /\ UNCHANGED <<ctxParams, pipes, isDev, rpc, req, error, found, parentAt, ret, preRan>>
    /\ UNCHANGED <<reqIp, rateMax, rateCallback>>

\* a stage that is no built-in middleware and passes the request on:
\* `await next()`
PassingStageRuns ==
    /\ rpc \in {"pre", "parentPre", "parentPost", "post"}
    /\ NextStage \notin MiddlewareNames
    /\ StageStart(1)
    /\ UNCHANGED routerVars

\* `setInterval(() => { hits.clear(); }, duration)` fires, between any two
\* steps of a request or between two requests
RateReset ==
    /\ rateHits' = Cleared(rateHits)
    /\ served' = TimerFired(served)
    /\ UNCHANGED <<reqIp, rateMax, rateCallback>>

\* the pre-pipelines made of generic stages and one stage `name`
PipelinesWith(name) ==
    {Splice(Stages(place[1]), place[2], name) :
        place \in {p \in (0..(MaxStages - 1)) \X (0..(MaxStages - 1)) : p[2] <= p[1]}}

\* the context of a request before it is handled: contextFactory
FreshContext ==
    /\ rpc = "idle"
    /\ req = NoRequest
    /\ res = ResponseFactory
    /\ error = NoError
    /\ found = NotFound
    /\ parentAt = 0
    /\ ret = NoReturn
    /\ events = <<>>
    /\ preRan = NotRun
    /\ ctxParams = NoParams

\* use(RateLimitMiddleware({max, duration, ratelimitCallback})) among the
\* use() calls made on the root
RateInit ==
    /\ \E pre \in PipelinesWith("rate-limit") :
         pipes = [r \in Routers |->
                     IF r = Root THEN [pre |-> pre, post |-> <<>>]
                     ELSE [pre |-> <<>>, post |-> <<>>]]
    /\ isDev = FALSE
    /\ FreshContext
    /\ reqIp = NoIp
    /\ served = NoneServed
    /\ rateMax \in 0..MaxHits
    /\ rateCallback \in BOOLEAN
    /\ rateHits = NoHits
    /\ CacheIdle

RateRequests == {Request("GET", <<Slash, "x">>)}

\* router.handle(ctx) for a request of some client
RateHandle ==
    /\ Handle(RateRequests)
    /\ reqIp' \in Ips
    /\ UNCHANGED <<served, rateVars>>

\* the call has settled, and the next request gets a context of its own
NextRequestOf(most) ==
    /\ rpc \in {"done", "rejected"}
    /\ served.requests + 1 < most
    /\ served' = [served EXCEPT !.requests = @ + 1]
    /\ rpc' = "idle"
    /\ req' = NoRequest
    /\ res' = ResponseFactory
    /\ error' = NoError
    /\ found' = NotFound
    /\ parentAt' = 0
    /\ ret' = NoReturn
    /\ events' = <<>>
    /\ preRan' = NotRun
    /\ ctxParams' = NoParams
    /\ reqIp' = NoIp
    /\ pc' = "idle"
    /\ index' = 0
    /\ stack' = <<>>
    /\ log' = <<>>
    /\ skipped' = {}
    /\ result' = FALSE
    /\ thrown' = None
    /\ UNCHANGED <<handlers, regCall>>
    /\ UNCHANGED <<pipes, isDev>>

NextRequest == NextRequestOf(MaxRequests)

(***************************************************************************)
(* The cache middlewares (CacheMiddlewareBefore, CacheMiddlewareAfter),    *)
(* installed by withCache: the first in the pre-pipeline, the second in    *)
(* the post-pipeline, both with the same settings and the one CACHE map.   *)
(***************************************************************************)
CacheEv(phase, r, during, key, outcome, item, before) ==
    [phase |-> phase, router |-> r, during |-> during, key |-> key,
     outcome |-> outcome, item |-> item, before |-> before]

\* the handler of CacheMiddlewareBefore
CacheBeforeRuns ==
    /\ rpc \in {"pre", "parentPre", "parentPost", "post"}
    /\ NextStage = "cache-before"
    /\ LET key == CacheKey(req)
       IN  IF MethodCached(cacheSettings, req.method) /\ key \in DOMAIN cache
           THEN /\ StageStart(0)
                /\ res' = [res EXCEPT !.data = cache[key].data,
                                      !.status = cache[key].status]
                /\ events' = Append(events,
                       CacheEv("cache-before", PhaseRouter, rpc, key, "hit",
                               cache[key], CacheSize(cache)))
           ELSE /\ StageStart(1)
                /\ events' = IF MethodCached(cacheSettings, req.method)
                             THEN Append(events,
                                    CacheEv("cache-before", PhaseRouter, rpc, key,
                                            IF key \in served.expired
                                            THEN "expired" ELSE "miss",
                                            CachedItem(res), CacheSize(cache)))
                             ELSE events
                /\ UNCHANGED res
    /\ UNCHANGED <<ctxParams, pipes, isDev, rpc, req, error, found, parentAt, ret, preRan>>
    /\ UNCHANGED <<reqIp, served, rateVars, cacheVars>>

\* the handler of CacheMiddlewareAfter up to its call of next()
CacheAfterRuns ==
    /\ rpc \in {"pre", "parentPre", "parentPost", "post"}
    /\ NextStage = "cache-after"
    /\ StageStart(1)
    /\ UNCHANGED routerVars
    /\ UNCHANGED mwVars

\* the stage that is about to return is the one named `name`
Returning(name) ==
    /\ pc = "running" /\ stack # <<>> /\ Top.calls = 0 /\ Top.pos > 0
    /\ handlers[Top.pos] = name

\* the handler of CacheMiddlewareAfter from the return of next() on
CacheAfterReturns ==
    /\ Returning("cache-after")
    /\ StageReturn
    /\ LET key == CacheKey(req)
           kept == AfterMaxLength(cacheSettings, AfterMaxItems(cacheSettings, cache))
       IN  IF ~MethodCached(cacheSettings, req.method)
           THEN UNCHANGED <<cache, cacheTimers, events>>
           ELSE IF ~Stores(cache, key)
           THEN /\ events' = Append(events,
                       CacheEv("cache-after", PhaseRouter, rpc, key, "kept",
                               cache[key], CacheSize(cache)))
                /\ UNCHANGED <<cache, cacheTimers>>
           ELSE /\ cache' = CacheSet(kept, key, CachedItem(res))
                /\ cacheTimers' =
                       [x \in DOMAIN cacheTimers \cup {key} |->
                           IF x \in DOMAIN cacheTimers
                           THEN cacheTimers[x] + (IF x = key THEN 1 ELSE 0)
                           ELSE 1]
                /\ events' = Append(events,
                       CacheEv("cache-after", PhaseRouter, rpc, key, "stored",
                               CachedItem(res), CacheSize(cache)))
    /\ UNCHANGED <<ctxParams, pipes, isDev, rpc, req, res, error, found, parentAt, ret, preRan>>
    /\ UNCHANGED <<reqIp, served, rateVars, cacheSettings>>

\* a stage other than cache-after returns
OtherStageReturns ==
    /\ ~Returning("cache-after")
    /\ StageReturn
    /\ UNCHANGED routerVars
    /\ UNCHANGED mwVars

CacheRequests ==
    {Request("GET", <<Slash, "x">>), Request("POST", <<Slash, "x">>),
     Request("GET", <<Slash, "y">>)}

ExpiredKeepsEntry(c, key) == c

\* `CACHE.delete(key)` of the timer callback
Expired(c, key) == CacheDelete(c, key)

\* one of the `setTimeout(() => { CACHE.delete(key); }, settings.expires)`
\* scheduled for `key` fires
CacheExpiresOf(key) ==
    /\ key \in DOMAIN cacheTimers
    /\ cacheTimers[key] > 0
    /\ cacheTimers' = [cacheTimers EXCEPT ![key] = @ - 1]
    /\ cache' = Expired(cache, key)
    /\ served' = IF key \in DOMAIN cache
                 THEN [served EXCEPT !.expired = @ \cup {key}]
                 ELSE served
    /\ UNCHANGED <<reqIp, rateVars, cacheSettings>>

CacheKeys == {CacheKey(r) : r \in CacheRequests}

CacheExpires == \E key \in CacheKeys : CacheExpiresOf(key)

\* the settings a server may be given
SettingsChoices ==
    [methods : {Unset({}), Given({"GET"})},
     maxItems : {Unset(0)} \cup {Given(n) : n \in 0..MaxItems},
     maxLength : {Unset(0), Given(MaxLength)}]

\* withCache(settings) among the use() calls made on the root
CacheInit ==
    /\ \E pre \in PipelinesWith("cache-before") :
         pipes = [r \in Routers |->
                     IF r = Root THEN [pre |-> pre, post |-> <<"cache-after">>]
                     ELSE [pre |-> <<>>, post |-> <<>>]]
    /\ isDev = FALSE
    /\ FreshContext
    /\ reqIp = NoIp
    /\ served = NoneServed
    /\ RateIdle
    /\ cacheSettings \in SettingsChoices
    /\ cache = NoEntries
    /\ cacheTimers = NoTimers

CacheHandle ==
    /\ Handle(CacheRequests)
    /\ UNCHANGED mwVars

CacheNextRequest == NextRequestOf(MaxCacheRequests)

(***************************************************************************)
(* Pipeline.handle(context) as the event loop runs it: several calls on    *)
(* one Pipeline, each over its own Context.  A call runs without           *)
(* interruption up to an `await`; what is suspended is resumed later, in   *)
(* any order.                                                              *)
(***************************************************************************)
MaxAsyncStages == 2   \* stages in the Pipeline

\* the handle() calls
Execs == {1, 2}

\* what a stage does with its Context: `await next()`, return without
\* calling next, call `next()` without awaiting it as the rate limiter does,
\* or await something else first and `await next()` then
Kinds == {"await", "stop", "fire", "io"}

NotCalled(kinds) ==
    [kinds |-> kinds,
     st |-> "none",
     phase |-> [p \in DOMAIN kinds |-> "none"],
     awaits |-> [p \in DOMAIN kinds |-> 0],
     first |-> 0,
     started |-> <<>>,
     returned |-> FALSE,
     during |-> {}]

AsyncIdle ==
    /\ runs = [e \in Execs |-> NotCalled(<<>>)]
    /\ indexes = [e \in Execs |-> 0]

\* the stages of the Pipeline, and what each does with each Context
AsyncInit ==
    /\ \E n \in 0..MaxAsyncStages :
           runs \in [Execs -> {NotCalled(kinds) : kinds \in [1..n -> Kinds]}]
    /\ indexes = [e \in Execs |-> 0]

IndexOfShared(e) == 1

\* `let index = 0`: a variable of the call
IndexOf(e) == e

\* the stage that a call of next() starts when the index is i, 0 for none
Target(c, i) == IF i < Len(c.kinds) THEN i + 1 ELSE 0

\* next() called when the index is i: `if (index < this.handlers.length) {
\* current = this.handlers[index]; index++; await current.handler(context,
\* next); }`, up to the first await that suspends the stage or its caller
RECURSIVE CallNext(_, _)
CallNext(c, i) ==
    IF i < Len(c.kinds)
    THEN LET p == i + 1
             begun == [c EXCEPT !.started = Append(@, p)]
             inner == CallNext(begun, p)
         IN  CASE c.kinds[p] = "stop" ->
                    [c |-> [begun EXCEPT !.phase[p] = "done"], i |-> p]
               [] c.kinds[p] = "io" ->
                    [c |-> [begun EXCEPT !.phase[p] = "io"], i |-> p]
               [] c.kinds[p] = "await" ->
                    [c |-> [inner.c EXCEPT !.phase[p] = "waiting",
                                           !.awaits[p] = Target(begun, p)],
                     i |-> inner.i]
               [] c.kinds[p] = "fire" ->
                    [c |-> [inner.c EXCEPT !.phase[p] = "done"], i |-> inner.i]
    ELSE [c |-> c, i |-> i]

\* the promise of the next() that started stage p, or none, is resolved
Resolved(c, p) == IF p = 0 THEN TRUE ELSE c.phase[p] = "done"

\* the calls that have been made and have not resolved
InProgress == {e \in Execs : runs[e].st = "waiting"}

\* handle(context): `let index = 0; ... await next();`
AsyncHandle(e) ==
    /\ runs[e].st = "none"
    /\ LET ran == CallNext(runs[e], 0)
       IN  /\ runs' = [runs EXCEPT ![e] =
                           [ran.c EXCEPT !.st = "waiting",
                                         !.first = Target(runs[e], 0),
                                         !.during = InProgress]]
           /\ indexes' = [indexes EXCEPT ![IndexOf(e)] = ran.i]

\* what stage p awaited before calling next is there: `await next()`
IoDone(e, p) ==
    /\ p \in DOMAIN runs[e].kinds
    /\ runs[e].phase[p] = "io"
    /\ LET resumed == CallNext(runs[e], indexes[IndexOf(e)])
       IN  /\ runs' = [runs EXCEPT ![e] =
                           [resumed.c EXCEPT
                               !.phase[p] = "waiting",
                               !.awaits[p] = Target(runs[e], indexes[IndexOf(e)])]]
           /\ indexes' = [indexes EXCEPT ![IndexOf(e)] = resumed.i]

\* stage p is resumed after its `await next()` and returns
StageResumes(e, p) ==
    /\ p \in DOMAIN runs[e].kinds
    /\ runs[e].phase[p] = "waiting"
    /\ Resolved(runs[e], runs[e].awaits[p])
    /\ runs' = [runs EXCEPT ![e].phase[p] = "done"]
    /\ UNCHANGED indexes

\* handle() is resumed after its `await next()`:
\* `return index === this.handlers.length`
HandleResolves(e) ==
    /\ runs[e].st = "waiting"
    /\ Resolved(runs[e], runs[e].first)
    /\ runs' = [runs EXCEPT ![e].st = "resolved",
                              ![e].returned = (indexes[IndexOf(e)] = Len(runs[e].kinds))]
    /\ UNCHANGED indexes

AsyncPositions == 1..MaxAsyncStages

(***************************************************************************)
(* CacheMiddlewareAfter under concurrent requests: each request is at the  *)
(* stage's `await next()` or past it, the part of the handler after the    *)
(* await runs without interruption, and the timers fire in the order in    *)
(* which they were scheduled (all have the delay settings.expires).        *)
(***************************************************************************)
\* the concurrent requests
CacheCalls == {1, 2, 3}

RaceRequests == {Request("GET", <<Slash, "x">>), Request("GET", <<Slash, "y">>)}

\* the response of request e when it comes to the cache-after stage
CallResponse(e) == [status |-> 200, data |-> Num(e)]

RaceEv(phase, e, key, c, after, cleared) ==
    [phase |-> phase, call |-> e, key |-> key,
     had |-> key \in DOMAIN c,
     left |-> IF key \in DOMAIN after THEN after[key] ELSE CachedItem(ResponseFactory),
     cleared |-> cleared,
     pending |-> 0]

RaceInit ==
    /\ runs \in [CacheCalls -> {[st |-> "none", req |-> r] : r \in RaceRequests}]
    /\ indexes = [e \in Execs |-> 0]
    /\ reqIp = NoIp
    /\ served = NoneServed
    /\ RateIdle
    /\ CorsIdle
    /\ cacheSettings \in SettingsChoices
    /\ cache = NoEntries
    /\ cacheTimers = NoTimers

\* the handler of CacheMiddlewareAfter for request e, up to `await next()`
\* or `return next()`
AfterCalled(e) ==
    /\ runs[e].st = "none"
    /\ LET cached == MethodCached(cacheSettings, runs[e].req.method)
       IN  /\ runs' = [runs EXCEPT ![e].st = IF cached THEN "awaiting" ELSE "returned"]
           /\ events' = Append(events,
                  RaceEv(IF cached THEN "start" ELSE "skip", e, CacheKey(runs[e].req),
                         cache, cache, FALSE))
    /\ UNCHANGED <<indexes, cache, cacheTimers>>

\* the handler for request e from the return of next() on
AfterResumed(e) ==
    /\ runs[e].st = "awaiting"
    /\ runs' = [runs EXCEPT ![e].st = "returned"]
    /\ LET key == CacheKey(runs[e].req)
           kept == AfterMaxLength(cacheSettings, AfterMaxItems(cacheSettings, cache))
       IN  IF ~Stores(cache, key)
           THEN /\ events' = Append(events, RaceEv("kept", e, key, cache, cache, FALSE))
                /\ UNCHANGED <<cache, cacheTimers>>
           ELSE /\ cache' = CacheSet(kept, key, CachedItem(CallResponse(e)))
                /\ cacheTimers' =
                       [x \in DOMAIN cacheTimers \cup {key} |->
                           IF x \in DOMAIN cacheTimers
                           THEN cacheTimers[x] + (IF x = key THEN 1 ELSE 0)
                           ELSE 1]
                /\ events' = Append(events,
                       RaceEv("stored", e, key, cache, cache', kept # cache))
    /\ UNCHANGED indexes

\* the oldest of the timers scheduled for `key` fires: `CACHE.delete(key)`
OldestTimerFires(key) ==
    /\ key \in DOMAIN cacheTimers
    /\ cacheTimers[key] > 0
    /\ cacheTimers' = [cacheTimers EXCEPT ![key] = @ - 1]
    /\ cache' = Expired(cache, key)
    /\ events' = Append(events,
           [RaceEv("expired", 0, key, cache, cache', FALSE)
                EXCEPT !.pending = cacheTimers[key] - 1])
    /\ UNCHANGED <<runs, indexes>>

RaceKeys == {CacheKey(r) : r \in RaceRequests}

(***************************************************************************)
(* RateLimitMiddleware under concurrent requests: a request is suspended   *)
(* in a stage before the rate limiter or has been through it.  The handler *)
(* of the rate limiter has no await: from `hits.get(ip)` to `next()` it    *)
(* runs without interruption.  The interval timer fires between any two    *)
(* steps.                                                                  *)
(***************************************************************************)
\* the concurrent requests
LimiterCalls == {1, 2, 3}

\* how many requests of each address have called next since the timer fired
NonePassed == [passed |-> [a \in Addresses |-> 0]]

NotArrived(ip) == [st |-> "none", ip |-> ip, seen |-> 0]

LimiterInit ==
    /\ runs \in [LimiterCalls -> {NotArrived(ip) : ip \in Ips}]
    /\ indexes = [e \in Execs |-> 0]
    /\ reqIp = NoIp
    /\ served = NonePassed
    /\ rateMax \in 0..MaxHits
    /\ rateCallback \in BOOLEAN
    /\ rateHits = NoHits
    /\ CacheIdle
    /\ CorsIdle

\* request e is received and is suspended in a stage before the rate limiter
Arrives(e) ==
    /\ runs[e].st = "none"
    /\ runs' = [runs EXCEPT ![e].st = "arrived",
                            ![e].seen = rateHits[AddressOf(runs[e].ip)]]
    /\ UNCHANGED <<indexes, served, rateVars, events>>

AddressHitsAtArrival(e) == runs[e].seen

\* `const addressHits = hits.get(ip) || 0`
AddressHits(e) == rateHits[AddressOf(runs[e].ip)]

LimiterEv(e, address, limited, before, after) ==
    [phase |-> "rate-limit", call |-> e, address |-> address, limited |-> limited,
     before |-> before, after |-> after]

\* the handler of RateLimitMiddleware for request e
LimiterRuns(e) ==
    /\ runs[e].st = "arrived"
    /\ LET ip == AddressOf(runs[e].ip)
           addressHits == AddressHits(e)
       IN  IF addressHits >= rateMax
           THEN /\ runs' = [runs EXCEPT ![e].st = "rejected"]
                /\ events' = Append(events, LimiterEv(e, ip, TRUE, rateHits, rateHits))
                /\ UNCHANGED <<rateHits, served>>
           ELSE /\ rateHits' = [rateHits EXCEPT ![ip] = addressHits + 1]
                /\ runs' = [runs EXCEPT ![e].st = "passed"]
                /\ served' = [served EXCEPT !.passed[ip] = @ + 1]
                /\ events' = Append(events, LimiterEv(e, ip, FALSE, rateHits, rateHits'))
    /\ UNCHANGED <<indexes, rateMax, rateCallback>>

\* `setInterval(() => { hits.clear(); }, duration)` fires
LimiterReset ==
    /\ rateHits' = Cleared(rateHits)
    /\ served' = NonePassed
    /\ UNCHANGED <<runs, indexes, rateMax, rateCallback, events>>

(***************************************************************************)
(* Specifications.                                                         *)
(***************************************************************************)
\* one Pipeline: registrations, then handle() calls
Init == PipeInit /\ AsyncIdle /\ MatcherIdle /\ TreeIdle /\ lk = NoLookup /\ RouterIdle /\ MiddlewaresIdle

Next ==
    \/ AddFirst /\ UNCHANGED <<asyncVars, mwVars, matcherVars, treeVars, lk, routerVars>>
    \/ AddBefore /\ UNCHANGED <<asyncVars, mwVars, matcherVars, treeVars, lk, routerVars>>
    \/ AddAfter /\ UNCHANGED <<asyncVars, mwVars, matcherVars, treeVars, lk, routerVars>>
    \/ AddLast /\ UNCHANGED <<asyncVars, mwVars, matcherVars, treeVars, lk, routerVars>>
    \/ HandleCall /\ UNCHANGED <<asyncVars, mwVars, matcherVars, treeVars, lk, routerVars>>
    \/ StageRuns /\ UNCHANGED <<asyncVars, mwVars, matcherVars, treeVars, lk, routerVars>>
    \/ StageFails /\ UNCHANGED <<asyncVars, mwVars, matcherVars, treeVars, lk, routerVars>>
    \/ NextPastEnd /\ UNCHANGED <<asyncVars, mwVars, matcherVars, treeVars, lk, routerVars>>
    \/ StageReturn /\ UNCHANGED <<asyncVars, mwVars, matcherVars, treeVars, lk, routerVars>>
    \/ HandleReturn /\ UNCHANGED <<asyncVars, mwVars, matcherVars, treeVars, lk, routerVars>>

Spec == Init /\ [][Next]_vars

\* handle() is called, time and again, on a Pipeline whose stages have been
\* registered
LiveInit ==
    /\ handlers \in {[i \in 1..n |-> StageNames[((i - 1) % Len(StageNames)) + 1]] :
                         n \in 0..MaxHandlers}
    /\ regCall = NoCall
    /\ pc = "idle"
    /\ index = 0
    /\ stack = <<>>
    /\ log = <<>>
    /\ skipped = {}
    /\ result = FALSE
    /\ thrown = None

LiveSpecInit ==
    LiveInit /\ AsyncIdle /\ MatcherIdle /\ TreeIdle /\ lk = NoLookup /\ RouterIdle
        /\ MiddlewaresIdle

LiveNext ==
    \/ HandleCall /\ UNCHANGED <<asyncVars, mwVars, matcherVars, treeVars, lk, routerVars>>
    \/ StageRuns /\ UNCHANGED <<asyncVars, mwVars, matcherVars, treeVars, lk, routerVars>>
    \/ StageFails /\ UNCHANGED <<asyncVars, mwVars, matcherVars, treeVars, lk, routerVars>>
    \/ NextPastEnd /\ UNCHANGED <<asyncVars, mwVars, matcherVars, treeVars, lk, routerVars>>
    \/ StageReturn /\ UNCHANGED <<asyncVars, mwVars, matcherVars, treeVars, lk, routerVars>>
    \/ HandleReturn /\ UNCHANGED <<asyncVars, mwVars, matcherVars, treeVars, lk, routerVars>>

\* a step of a handle() call that is in progress
HandleStep ==
    (StageRuns \/ StageFails \/ NextPastEnd \/ StageReturn \/ HandleReturn)
        /\ UNCHANGED <<asyncVars, mwVars, matcherVars, treeVars, lk, routerVars>>

\* every stage terminates: a stage that was started goes on to its next call
\* of next(), to its return or to its throw, and so does the body of handle()
LiveSpec == LiveSpecInit /\ [][LiveNext]_vars /\ WF_vars(HandleStep)

\* matchPath and extractParams applied to one (prefix, pattern, path)
MatcherSpecInit == PipeInit /\ AsyncIdle /\ MatcherInit /\ TreeIdle /\ lk = NoLookup /\ RouterIdle /\ MiddlewaresIdle

MatcherNext ==
    \/ ApplyMatchPath /\ UNCHANGED <<asyncVars, mwVars, pipeVars, treeVars, lk, routerVars>>
    \/ ApplyExtractParams /\ UNCHANGED <<asyncVars, mwVars, pipeVars, treeVars, lk, routerVars>>

MatcherSpec == MatcherSpecInit /\ [][MatcherNext]_vars

\* handle() calls on one Pipeline, run by the event loop
AsyncSpecInit ==
    PipeInit /\ MatcherIdle /\ TreeIdle /\ lk = NoLookup /\ RouterIdle /\ MiddlewaresIdle
        /\ AsyncInit

AsyncFrame == UNCHANGED <<pipeVars, matcherVars, treeVars, lk, routerVars, mwVars>>

AsyncNext ==
    \/ \E e \in Execs : AsyncHandle(e) /\ AsyncFrame
    \/ \E e \in Execs, p \in AsyncPositions : IoDone(e, p) /\ AsyncFrame
    \/ \E e \in Execs, p \in AsyncPositions : StageResumes(e, p) /\ AsyncFrame
    \/ \E e \in Execs : HandleResolves(e) /\ AsyncFrame

AsyncSpec == AsyncSpecInit /\ [][AsyncNext]_vars

\* a route handler returns a value to _handle()
MergeSpecInit == PipeInit /\ AsyncIdle /\ MatcherIdle /\ RouterTreeInit /\ lk = NoLookup /\ MergeInit
                   /\ MiddlewaresIdle

MergeNext ==
    RouteReturns /\ UNCHANGED <<asyncVars, mwVars, matcherVars, treeVars, lk>>

MergeSpec == MergeSpecInit /\ [][MergeNext]_vars

\* matchPath is applied to a string pattern, a prefix and a request path
PatternSpecInit == PipeInit /\ AsyncIdle /\ PatternInit /\ TreeIdle /\ lk = NoLookup /\ RouterIdle /\ MiddlewaresIdle

PatternNext ==
    ApplyMatchPath /\ UNCHANGED <<asyncVars, mwVars, pipeVars, treeVars, lk, routerVars>>

PatternSpec == PatternSpecInit /\ [][PatternNext]_vars

\* a tree of routers is built, then paths are looked up in it
LookupSpecInit == PipeInit /\ AsyncIdle /\ MatcherIdle /\ TreeInit /\ lk = NoLookup /\ RouterIdle /\ MiddlewaresIdle

LookupNext ==
    \/ AppendChild /\ UNCHANGED <<asyncVars, mwVars, pipeVars, matcherVars, routerVars>>
    \/ AddRoute /\ UNCHANGED <<asyncVars, mwVars, pipeVars, matcherVars, routerVars>>
    \/ Lookup /\ UNCHANGED <<asyncVars, mwVars, pipeVars, matcherVars, routerVars>>

LookupSpec == LookupSpecInit /\ [][LookupNext]_vars

\* paths are looked up in a chain of nested routers
ChainSpecInit == PipeInit /\ AsyncIdle /\ MatcherIdle /\ ChainInit /\ lk = NoLookup /\ RouterIdle /\ MiddlewaresIdle

ChainNext == ChainLookup /\ UNCHANGED <<asyncVars, mwVars, pipeVars, matcherVars, routerVars>>

ChainSpec == ChainSpecInit /\ [][ChainNext]_vars

\* paths are looked up in a chain of nested routers with a RegExp route
RegExpSpecInit ==
    PipeInit /\ AsyncIdle /\ MatcherIdle /\ RegExpChainInit /\ lk = NoLookup /\ RouterIdle
        /\ MiddlewaresIdle

RegExpNext ==
    RegExpChainLookup /\ UNCHANGED <<asyncVars, mwVars, pipeVars, matcherVars, routerVars>>

RegExpSpec == RegExpSpecInit /\ [][RegExpNext]_vars

\* one request is given to the root of a chain of routers
RouterSpecInit == PipeInit /\ AsyncIdle /\ MatcherIdle /\ RouterTreeInit /\ lk = NoLookup /\ RouterInit
                    /\ MiddlewaresIdle

RouterNext ==
    \/ RouterHandle /\ UNCHANGED <<asyncVars, mwVars, matcherVars, treeVars, lk>>
    \/ RouterStageRuns /\ UNCHANGED <<asyncVars, mwVars, matcherVars, treeVars, lk>>
    \/ RouterStageFails /\ UNCHANGED <<asyncVars, mwVars, matcherVars, treeVars, lk>>
    \/ NextPastEnd /\ UNCHANGED <<asyncVars, mwVars, matcherVars, treeVars, lk, routerVars>>
    \/ StageReturn /\ UNCHANGED <<asyncVars, mwVars, matcherVars, treeVars, lk, routerVars>>
    \/ HandleReturn /\ UNCHANGED <<asyncVars, mwVars, matcherVars, treeVars, lk, routerVars>>
    \/ PreSettled /\ UNCHANGED <<asyncVars, mwVars, matcherVars, treeVars, lk>>
    \/ ParentPreSettled /\ UNCHANGED <<asyncVars, mwVars, matcherVars, treeVars, lk>>
    \/ RouteHandle /\ UNCHANGED <<asyncVars, mwVars, matcherVars, treeVars, lk>>
    \/ Catch /\ UNCHANGED <<asyncVars, mwVars, matcherVars, treeVars, lk>>
    \/ Then /\ UNCHANGED <<asyncVars, mwVars, matcherVars, treeVars, lk>>
    \/ ParentPostSettled /\ UNCHANGED <<asyncVars, mwVars, matcherVars, treeVars, lk>>
    \/ PostSettled /\ UNCHANGED <<asyncVars, mwVars, matcherVars, treeVars, lk>>

RouterSpec == RouterSpecInit /\ [][RouterNext]_vars

\* one request is given to a root router whose pre-pipeline has the CORS stage
CorsSpecInit == PipeInit /\ AsyncIdle /\ MatcherIdle /\ RouterTreeInit /\ lk = NoLookup /\ CorsInit
                  /\ MiddlewaresIdle

CorsNext ==
    \/ CorsHandle /\ UNCHANGED <<asyncVars, mwVars, matcherVars, treeVars, lk>>
    \/ CorsStageRuns /\ UNCHANGED <<asyncVars, mwVars, matcherVars, treeVars, lk>>
    \/ RouterStageRuns /\ UNCHANGED <<asyncVars, mwVars, matcherVars, treeVars, lk>>
    \/ RouterStageFails /\ UNCHANGED <<asyncVars, mwVars, matcherVars, treeVars, lk>>
    \/ NextPastEnd /\ UNCHANGED <<asyncVars, mwVars, matcherVars, treeVars, lk, routerVars>>
    \/ StageReturn /\ UNCHANGED <<asyncVars, mwVars, matcherVars, treeVars, lk, routerVars>>
    \/ HandleReturn /\ UNCHANGED <<asyncVars, mwVars, matcherVars, treeVars, lk, routerVars>>
    \/ PreSettled /\ UNCHANGED <<asyncVars, mwVars, matcherVars, treeVars, lk>>
    \/ ParentPreSettled /\ UNCHANGED <<asyncVars, mwVars, matcherVars, treeVars, lk>>
    \/ RouteHandle /\ UNCHANGED <<asyncVars, mwVars, matcherVars, treeVars, lk>>
    \/ Catch /\ UNCHANGED <<asyncVars, mwVars, matcherVars, treeVars, lk>>
    \/ Then /\ UNCHANGED <<asyncVars, mwVars, matcherVars, treeVars, lk>>
    \/ ParentPostSettled /\ UNCHANGED <<asyncVars, mwVars, matcherVars, treeVars, lk>>
    \/ PostSettled /\ UNCHANGED <<asyncVars, mwVars, matcherVars, treeVars, lk>>

CorsSpec == CorsSpecInit /\ [][CorsNext]_vars

\* the same with the settings of the CORS stage and the headers it writes
CorsHeadersSpecInit ==
    PipeInit /\ AsyncIdle /\ MatcherIdle /\ RouterTreeInit /\ lk = NoLookup /\ CorsInit
        /\ reqIp = NoIp /\ served = NoneServed /\ RateIdle /\ CacheIdle
        /\ CorsHeadersInit

CorsHeadersNext ==
    \/ CorsHandle /\ UNCHANGED <<asyncVars, mwVars, matcherVars, treeVars, lk>>
    \/ CorsStage /\ UNCHANGED <<asyncVars, reqIp, served, rateVars, cacheVars,
                                 matcherVars, treeVars, lk>>
    \/ RouterStageRuns /\ UNCHANGED <<asyncVars, mwVars, matcherVars, treeVars, lk>>
    \/ RouterStageFails /\ UNCHANGED <<asyncVars, mwVars, matcherVars, treeVars, lk>>
    \/ NextPastEnd /\ UNCHANGED <<asyncVars, mwVars, matcherVars, treeVars, lk, routerVars>>
    \/ StageReturn /\ UNCHANGED <<asyncVars, mwVars, matcherVars, treeVars, lk, routerVars>>
    \/ HandleReturn /\ UNCHANGED <<asyncVars, mwVars, matcherVars, treeVars, lk, routerVars>>
    \/ PreSettled /\ UNCHANGED <<asyncVars, mwVars, matcherVars, treeVars, lk>>
    \/ ParentPreSettled /\ UNCHANGED <<asyncVars, mwVars, matcherVars, treeVars, lk>>
    \/ RouteHandle /\ UNCHANGED <<asyncVars, mwVars, matcherVars, treeVars, lk>>
    \/ Catch /\ UNCHANGED <<asyncVars, mwVars, matcherVars, treeVars, lk>>
    \/ Then /\ UNCHANGED <<asyncVars, mwVars, matcherVars, treeVars, lk>>
    \/ ParentPostSettled /\ UNCHANGED <<asyncVars, mwVars, matcherVars, treeVars, lk>>
    \/ PostSettled /\ UNCHANGED <<asyncVars, mwVars, matcherVars, treeVars, lk>>

CorsHeadersSpec == CorsHeadersSpecInit /\ [][CorsHeadersNext]_vars

\* requests are served by a root router whose pre-pipeline has the rate limiter
RateSpecInit == PipeInit /\ AsyncIdle /\ MatcherIdle /\ RouterTreeInit /\ lk = NoLookup /\ RateInit
                  /\ CorsIdle

RateNext ==
    \/ RateHandle /\ UNCHANGED <<asyncVars, corsVars, matcherVars, treeVars, lk, cacheVars>>
    \/ RateStageRuns /\ UNCHANGED <<asyncVars, corsVars, matcherVars, treeVars, lk, cacheVars>>
    \/ RateReset /\ UNCHANGED <<asyncVars, corsVars, matcherVars, treeVars, lk, pipeVars, routerVars, cacheVars>>
    \/ NextRequest /\ UNCHANGED <<asyncVars, corsVars, matcherVars, treeVars, lk, rateVars, cacheVars>>
    \/ PassingStageRuns /\ UNCHANGED <<asyncVars, mwVars, matcherVars, treeVars, lk>>
    \/ NextPastEnd /\ UNCHANGED <<asyncVars, mwVars, matcherVars, treeVars, lk, routerVars>>
    \/ StageReturn /\ UNCHANGED <<asyncVars, mwVars, matcherVars, treeVars, lk, routerVars>>
    \/ HandleReturn /\ UNCHANGED <<asyncVars, mwVars, matcherVars, treeVars, lk, routerVars>>
    \/ PreSettled /\ UNCHANGED <<asyncVars, mwVars, matcherVars, treeVars, lk>>
    \/ RouteHandle /\ UNCHANGED <<asyncVars, mwVars, matcherVars, treeVars, lk>>
    \/ Catch /\ UNCHANGED <<asyncVars, mwVars, matcherVars, treeVars, lk>>
    \/ Then /\ UNCHANGED <<asyncVars, mwVars, matcherVars, treeVars, lk>>
    \/ PostSettled /\ UNCHANGED <<asyncVars, mwVars, matcherVars, treeVars, lk>>

RateSpec == RateSpecInit /\ [][RateNext]_vars

CacheSpecInit == PipeInit /\ AsyncIdle /\ MatcherIdle /\ RouterTreeInit /\ lk = NoLookup /\ CacheInit
                   /\ CorsIdle

CacheNext ==
    \/ CacheHandle /\ UNCHANGED <<asyncVars, corsVars, matcherVars, treeVars, lk>>
    \/ CacheBeforeRuns /\ UNCHANGED <<asyncVars, corsVars, matcherVars, treeVars, lk>>
    \/ CacheAfterRuns /\ UNCHANGED <<asyncVars, corsVars, matcherVars, treeVars, lk>>
    \/ CacheAfterReturns /\ UNCHANGED <<asyncVars, corsVars, matcherVars, treeVars, lk>>
    \/ CacheExpires /\ UNCHANGED <<asyncVars, corsVars, matcherVars, treeVars, lk, pipeVars, routerVars>>
    \/ CacheNextRequest /\ UNCHANGED <<asyncVars, corsVars, matcherVars, treeVars, lk, rateVars, cacheVars>>
    \/ PassingStageRuns /\ UNCHANGED <<asyncVars, mwVars, matcherVars, treeVars, lk>>
    \/ OtherStageReturns /\ UNCHANGED <<asyncVars, corsVars, matcherVars, treeVars, lk>>
    \/ NextPastEnd /\ UNCHANGED <<asyncVars, mwVars, matcherVars, treeVars, lk, routerVars>>
    \/ HandleReturn /\ UNCHANGED <<asyncVars, mwVars, matcherVars, treeVars, lk, routerVars>>
    \/ PreSettled /\ UNCHANGED <<asyncVars, mwVars, matcherVars, treeVars, lk>>
    \/ RouteHandle /\ UNCHANGED <<asyncVars, mwVars, matcherVars, treeVars, lk>>
    \/ Catch /\ UNCHANGED <<asyncVars, mwVars, matcherVars, treeVars, lk>>
    \/ Then /\ UNCHANGED <<asyncVars, mwVars, matcherVars, treeVars, lk>>
    \/ PostSettled /\ UNCHANGED <<asyncVars, mwVars, matcherVars, treeVars, lk>>

CacheSpec == CacheSpecInit /\ [][CacheNext]_vars

\* concurrent requests come to the rate limiter
LimiterSpecInit ==
    PipeInit /\ MatcherIdle /\ TreeIdle /\ lk = NoLookup /\ RouterIdle /\ LimiterInit

LimiterFrame ==
    UNCHANGED <<pipeVars, matcherVars, treeVars, lk, reqIp, cacheVars, corsVars,
                pipes, isDev, rpc, req, res, error, found, parentAt, ret,
                preRan, ctxParams>>

LimiterNext ==
    \/ \E e \in LimiterCalls : Arrives(e) /\ LimiterFrame
    \/ \E e \in LimiterCalls : LimiterRuns(e) /\ LimiterFrame
    \/ LimiterReset /\ LimiterFrame

LimiterSpec == LimiterSpecInit /\ [][LimiterNext]_vars

\* concurrent requests come to the cache-after stage
RaceSpecInit ==
    PipeInit /\ MatcherIdle /\ TreeIdle /\ lk = NoLookup /\ RouterIdle /\ RaceInit

RaceFrame ==
    UNCHANGED <<pipeVars, matcherVars, treeVars, lk, reqIp, served, rateVars, corsVars,
                cacheSettings, pipes, isDev, rpc, req, res, error, found, parentAt, ret,
                preRan, ctxParams>>

RaceNext ==
    \/ \E e \in CacheCalls : AfterCalled(e) /\ RaceFrame
    \/ \E e \in CacheCalls : AfterResumed(e) /\ RaceFrame
    \/ \E key \in RaceKeys : OldestTimerFires(key) /\ RaceFrame

RaceSpec == RaceSpecInit /\ [][RaceNext]_vars

\* the same with timers that do fire: a callback given to setTimeout is
\* run once its delay has passed
CacheTimerFires(key) ==
    CacheExpiresOf(key) /\ UNCHANGED <<asyncVars, corsVars, matcherVars, treeVars, lk, pipeVars, routerVars>>

\* withCache(settings) with neither maxItems nor maxLength: no entry leaves
\* the cache but by its timer
CacheLiveInit ==
    /\ CacheInit
    /\ ~cacheSettings.maxItems.given
    /\ ~cacheSettings.maxLength.given

CacheLiveSpecInit ==
    PipeInit /\ AsyncIdle /\ MatcherIdle /\ RouterTreeInit /\ lk = NoLookup
        /\ CacheLiveInit /\ CorsIdle

CacheLiveSpec ==
    /\ CacheLiveSpecInit
    /\ [][CacheNext]_vars
    /\ \A key \in CacheKeys : WF_vars(CacheTimerFires(key))

(***************************************************************************)
(* Claims about the Pipeline, checked under Spec.                          *)
(***************************************************************************)
\* the list `new` is `old` with `name` put in at position k, nothing else moved
InsertedAt(old, new, k, name) ==
    /\ Len(new) = Len(old) + 1
    /\ k \in 1..Len(new)
    /\ new[k] = name
    /\ \A i \in 1..(k - 1) : new[i] = old[i]
    /\ \A i \in (k + 1)..Len(new) : new[i] = old[i - 1]

\* what the registration `call` is to make of the stage list `old`
PlacedAsAsked(call, old, new) ==
    \E k \in 1..(Len(old) + 1) :
        /\ InsertedAt(old, new, k, call.name)
        /\ CASE call.op = "addFirst" -> k = 1
             [] call.op = "addLast" -> k = Len(old) + 1
             [] call.op = "addBefore" ->
                    /\ k <= Len(old) /\ old[k] = call.anchor
                    /\ \A i \in 1..(k - 1) : old[i] # call.anchor
             [] call.op = "addAfter" ->
                    /\ k >= 2 /\ old[k - 1] = call.anchor
                    /\ \A i \in 1..(k - 2) : old[i] # call.anchor

\* the stages started so far are the first Len(log) stages, in list order
StartedInListOrder == log = [i \in 1..Len(log) |-> i]

\* C1: every successful registration puts the new stage where the call asks
\* (front, end, just before / just after the first stage with the anchor's
\* name) and moves no other stage; handle() starts the stages in list order,
\* all of them when every stage invokes its continuation.
C1_RegistrationOrder ==
    /\ [][(regCall' # NoCall /\ regCall'.outcome = "ok")
            => PlacedAsAsked(regCall', handlers, handlers')]_vars
    /\ [](StartedInListOrder)
    /\ []((pc = "done" /\ skipped = {}) => Len(log) = Len(handlers))

\* C1 witness: addFirst(A), addLast(B), addBefore("B", C), addAfter("A", D)
\* has been handled and A, D, C, B were started in that order.
C1_Witness ==
    /\ handlers = <<"A", "D", "C", "B">>
    /\ pc = "done"
    /\ log = <<1, 2, 3, 4>>

\* C2: a stage that returned without invoking its continuation is the last
\* stage handle() starts: no stage after it in the list is started.
C2_NoLaterStageStarted ==
    \A p \in skipped : \A q \in 1..Len(log) : log[q] <= p

\* C3: handle() resolves to false when some stage it started did not invoke
\* its continuation, and to true when every stage did.
C3_ResultTellsShortCircuit ==
    pc = "done" => (result = (skipped = {}))

(***************************************************************************)
(* Claims about the path matcher, checked under MatcherSpec.               *)
(***************************************************************************)
\* the segments of a string that starts with "/": "/a//b" is a, (empty), b
RECURSIVE Segments(_)
Segments(s) ==
    IF s = <<>> THEN <<>>
    ELSE LET n == RunLen(s, 2, {s[k] : k \in 1..Len(s)} \ {Slash})
         IN  <<SubSeq(s, 2, n + 1)>> \o Segments(SubSeq(s, n + 2, Len(s)))

IsStarSeg(seg) == seg = <<"*">>
IsParamSeg(seg) ==
    Len(seg) >= 2 /\ seg[1] = ":" /\ \A k \in 2..Len(seg) : seg[k] \in WordChars
SegName(seg) == Tail(seg)

\* the pattern the matcher is given, prefix included, as segments
GivenPatternSegs == Segments(Collapse(mPrefix \o mPattern))

\* segment i of the pattern is the only `:name` of that name
OnlyUse(psegs, i) ==
    /\ IsParamSeg(psegs[i])
    /\ \A k \in 1..Len(psegs) : (k # i /\ IsParamSeg(psegs[k])) => psegs[k] # psegs[i]

\* a pattern of literal and `:name` segments fits a path segment by segment
FitsSegmentwise(psegs, qsegs) ==
    /\ Len(psegs) = Len(qsegs)
    /\ \A i \in 1..Len(psegs) :
         IF IsParamSeg(psegs[i]) THEN qsegs[i] # <<>> ELSE qsegs[i] = psegs[i]

\* C7: extractParams binds each `:name` to the path segment at the position
\* of that `:name`: counted from the front when no `*` precedes it, from the
\* end when no `*` follows it; a `*` binds nothing; a pattern without `*`
\* binds exactly when it fits the path segment by segment.
C7_ParamsBoundByPosition ==
    mParams # <<>> =>
        LET params == mParams[1]
            psegs == GivenPatternSegs
            qsegs == Segments(mPath)
            np == Len(psegs)
            nq == Len(qsegs)
            names == {SegName(psegs[i]) : i \in {k \in 1..np : IsParamSeg(psegs[k])}}
            stars == {k \in 1..np : IsStarSeg(psegs[k])}
            bound == (stars = {} /\ FitsSegmentwise(psegs, qsegs))
                        \/ (stars # {} /\ params # NoParams)
        IN  /\ (stars = {} /\ ~FitsSegmentwise(psegs, qsegs)) => params = NoParams
            /\ bound =>
                 /\ DOMAIN params = names
                 /\ \A i \in 1..np : OnlyUse(psegs, i) =>
                      LET v == params[SegName(psegs[i])]
                      IN  /\ v # <<>> /\ \A k \in 1..Len(v) : v[k] # Slash
                          /\ (\A k \in stars : k > i) => (i <= nq /\ v = qsegs[i])
                          /\ (\A k \in stars : k < i) =>
                                 (nq - (np - i) >= 1 /\ v = qsegs[nq - (np - i)])

\* C7 witness: `/a/*/:x` against `/a/a/b` has yielded {x: "b"}.
C7_Witness ==
    /\ mPrefix = <<>>
    /\ mPattern = <<"/", "a", "/", "*", "/", ":", "x">>
    /\ mPath = <<"/", "a", "/", "a", "/", "b">>
    /\ mParams = << (<<"x">> :> <<"b">>) >>

(***************************************************************************)
(* Claims about lookupPath, checked under LookupSpec and ChainSpec.        *)
(***************************************************************************)
Looked == lk.method # None

Visited(owner, pos, parents) == [owner |-> owner, pos |-> pos, parents |-> parents]

RECURSIVE Flat(_)
Flat(lists) == IF lists = <<>> THEN <<>> ELSE Head(lists) \o Flat(Tail(lists))

\* the routes of the tree under router r in the order "the routes of r as
\* registered, then each child of r as appended, recursively"
RECURSIVE SearchOrder(_, _)
SearchOrder(r, parents) ==
    [i \in 1..Len(routes[r]) |-> Visited(r, i, parents)]
        \o Flat([i \in 1..Len(children[r]) |->
                    SearchOrder(children[r][i], Append(parents, r))])

RouteAt(v) == routes[v.owner][v.pos]

\* the route's pattern under its router's effective prefix matches the path
PatternMatches(v, path) == MatchPath(FullPrefix(v.owner, v.parents), RouteAt(v).path, path)

\* C5: lookupPath returns the first route, in search order, whose pattern
\* matches the path and whose method is the requested one, and nothing
\* exactly when no route of the tree is such a route.
C5_FirstMatchInSearchOrder ==
    Looked =>
        LET order == SearchOrder(Root, <<>>)
            hits == {k \in 1..Len(order) :
                        /\ PatternMatches(order[k], lk.path)
                        /\ RouteAt(order[k]).method = lk.method}
        IN  IF hits = {}
            THEN ~lk.res.found
            ELSE /\ lk.res.found
                 /\ lk.res.owner = order[Min(hits)].owner
                 /\ lk.res.pos = order[Min(hits)].pos

\* C5 witness: a route of a nested router is returned although a route of the
\* root, earlier in the search order, matches the path with another method.
C5_Witness ==
    /\ Looked /\ lk.res.found /\ lk.res.owner # Root
    /\ \E i \in 1..Len(routes[Root]) :
         /\ PatternMatches(Visited(Root, i, <<>>), lk.path)
         /\ routes[Root][i].method # lk.method

\* collapse repeated "/", drop a trailing "/" except for the root path
NormalizeAsClaimed(s) ==
    LET c == Collapse(s)
    IN  IF Len(c) > 1 /\ c[Len(c)] = Slash THEN SubSeq(c, 1, Len(c) - 1)
        ELSE IF c = <<>> THEN <<Slash>> ELSE c

\* p1 + ... + pn + p: the prefixes of the ancestors, outermost first, then
\* the router's own
ConcatPrefixes(v) ==
    Flat([i \in 1..Len(v.parents) |-> prefixOf[v.parents[i]]]) \o prefixOf[v.owner]

\* the path matches the pattern normalize(p1 + ... + pn + p + pattern)
MatchesConcatenation(v, path) ==
    Test(ConvertToRegExp(NormalizeAsClaimed(ConcatPrefixes(v) \o RouteAt(v).path.text)),
         NormalizeAsClaimed(path))

\* a route answers a request exactly when its method is the requested one
\* and the path matches the concatenation of the prefixes and the pattern
AnswersByConcatenation ==
    LET order == SearchOrder(Root, <<>>)
    IN  /\ lk.res.found <=>
              \E k \in 1..Len(order) :
                  /\ RouteAt(order[k]).method = lk.method
                  /\ MatchesConcatenation(order[k], lk.path)
        /\ lk.res.found =>
              MatchesConcatenation(Visited(lk.res.owner, lk.res.pos, lk.res.parents),
                                   lk.path)

LeadingSlash(s) == s # <<>> /\ s[1] = Slash

\* every prefix is empty or begins with "/", every pattern begins with "/"
SlashLed ==
    /\ \A r \in 1..made : prefixOf[r] = <<>> \/ LeadingSlash(prefixOf[r])
    /\ \A r \in 1..made : \A i \in 1..Len(routes[r]) :
           LeadingSlash(routes[r][i].path.text)

\* C6 as stated: a string-pattern route answers a path exactly when the path
\* matches normalize(p1 + ... + pn + p + pattern), for any prefixes.
C6_PlainConcatenation == Looked => AnswersByConcatenation

\* C6 as amended: the same, when every non-empty prefix and the pattern begin
\* with "/" (the code joins the prefixes and the pattern with "/").
C6_ConcatenationOfSlashLed == (Looked /\ SlashLed) => AnswersByConcatenation

\* C6 witness: three nested routers with prefix "/a" each, and the route of
\* the innermost is found.
C6_Witness ==
    /\ Looked /\ made = 3 /\ lk.res.found
    /\ \A r \in 1..3 : prefixOf[r] = <<Slash, "a">>
    /\ lk.path = <<Slash, "a", Slash, "a", Slash, "a", Slash, "x">>

(***************************************************************************)
(* Claims about Router.handle, checked under RouterSpec.                   *)
(***************************************************************************)
Happened(phase) == \E i \in DOMAIN events : events[i].phase = phase

\* a stage of the pipeline run in one of `phases` wrote the response
WroteDuring(phases) ==
    \E i \in DOMAIN events : events[i].phase = "write" /\ events[i].during \in phases

PostWrote == WroteDuring({"parentPost", "post"})

HandleSettled == rpc \in {"done", "rejected"}

\* C4: when a stage of the router's own pre-pipeline returns without invoking
\* its continuation, no route is looked up, no route handler is invoked and
\* no NotFound error is raised for the request, and the response stays as the
\* pre-pipeline wrote it.
C4_ShortCircuitSkipsDispatch ==
    preRan.short =>
        /\ ~Happened("lookup")
        /\ ~Happened("route")
        /\ ~Happened("catch")
        /\ (WroteDuring({"pre"}) /\ ~PostWrote) => res = StageWrote

\* no route of the tree has the requested method and a matching pattern
NoRouteMatches ==
    LET order == SearchOrder(Root, <<>>)
    IN  \A i \in 1..Len(order) :
            ~(PatternMatches(order[i], req.path) /\ RouteAt(order[i]).method = req.method)

\* C8: when the pre-pipeline completed and no route of the tree matches the
\* request, the response has status 404 and the body {error: "Route not
\* found: METHOD PATH", statusCode: 404} with the request's method and path,
\* from the catch callback on (as long as no post-pipeline stage writes it).
C8_NotFoundResponse ==
    (/\ rpc \in {"then", "parentPost", "post", "done", "rejected"}
     /\ preRan.handled /\ NoRouteMatches /\ ~PostWrote)
        => /\ res.status = 404
           /\ res.data = [kind |-> "error",
                          error |-> <<"Route not found: ", req.method, " ", req.path>>,
                          statusCode |-> 404,
                          internal |-> FALSE]

\* C8 witness: the call has settled for GET /y, which no route matches, after
\* a non-empty pre-pipeline completed, with the 404 response.
C8_Witness ==
    /\ rpc = "done" /\ preRan.handled /\ pipes[Root].pre # <<>>
    /\ req = [method |-> "GET", path |-> <<Slash, "y">>]
    /\ res.status = 404

\* C9: when a stage of a pre-pipeline or the route handler throws, the status
\* and the body of the response become those of the error: statusCode and
\* message of an HTTPError, 500 and "Internal Server Error" of anything else;
\* nothing written before survives (a post-pipeline stage may write after).
C9_ThrownErrorReplacesResponse ==
    (Happened("catch") /\ ~PostWrote) =>
        LET http == error.kind = "HTTPError"
        IN  /\ res.status = IF http THEN error.statusCode ELSE 500
            /\ res.data.kind = "error"
            /\ res.data.error = IF http THEN error.message
                                ELSE <<"Internal Server Error">>
            /\ res.data.statusCode = IF http THEN error.statusCode ELSE 500

\* C9 witness: a stage of the router's own pre-pipeline wrote the response,
\* then a stage of the pre-pipeline of router 2, an ancestor of the route,
\* threw an Error; the call has settled with status 500.
C9_Witness ==
    /\ rpc = "done" /\ error.kind = "Error"
    /\ WroteDuring({"pre"})
    /\ \E i \in DOMAIN events : events[i] = Ev("parentPre", 2)
    /\ ~Happened("route") /\ Happened("catch")
    /\ res.status = 500 /\ res.data.kind = "error"

BodyPhases == {"pre", "lookup", "parentPre", "route", "catch"}

\* C10: the router's own post-pipeline is started once the body has ended,
\* whatever its outcome: handle() does not settle before it has run its own
\* post-pipeline, and nothing of the body happens after that has started.
C10_OwnPostPipelineAlwaysStarted ==
    /\ HandleSettled =>
          /\ Happened("post")
          /\ handlers = pipes[Root].post
          /\ pipes[Root].post # <<>> => (log # <<>> /\ log[1] = 1)
    /\ \A i, j \in DOMAIN events :
          (events[i].phase = "post"
              /\ (events[j].phase \in BodyPhases
                    \/ (events[j].phase = "write"
                          /\ events[j].during \in BodyPhases)))
            => j < i

\* C10 witness: the route handler threw, and the call has settled after the
\* first stage of the router's own post-pipeline was started.
C10_Witness ==
    /\ HandleSettled /\ Happened("route") /\ Happened("catch")
    /\ pipes[Root].post # <<>> /\ handlers = pipes[Root].post /\ log # <<>>

\* C11: when a route of a nested router was resolved and the body then failed,
\* the post-pipeline of every ancestor router of the route has been run by the
\* time handle() settles.
C11_AncestorPostPipelinesRunAfterFailure ==
    (HandleSettled /\ found.found /\ Happened("catch")) =>
        \A i \in DOMAIN found.parents :
            \E j \in DOMAIN events :
                /\ events[j].phase \in {"parentPost", "post"}
                /\ events[j].router = found.parents[i]

\* the routers whose pre-pipelines were run for the route, in order
RECURSIVE AncestorsRun(_)
AncestorsRun(evs) ==
    IF evs = <<>> THEN <<>>
    ELSE IF Head(evs).phase = "parentPre"
         THEN <<Head(evs).router>> \o AncestorsRun(Tail(evs))
         ELSE AncestorsRun(Tail(evs))

\* C12: the pre-pipelines of the ancestors of the resolved route are run
\* outermost first, and once a stage of one of them has returned without
\* calling next, no further ancestor pre-pipeline is started, ctx.params is
\* not bound and the route handler is not invoked.
C12_AncestorShortCircuitStopsDispatch ==
    /\ found.found =>
          AncestorsRun(events) = SubSeq(found.parents, 1, Len(AncestorsRun(events)))
    /\ \A i \in DOMAIN events :
          (events[i].phase = "short" /\ events[i].during = "parentPre") =>
              /\ \A j \in DOMAIN events :
                    j > i => events[j].phase \notin {"parentPre", "route"}
              /\ ctxParams = NoParams

\* C13: when the handler of a route is invoked, the pre-pipeline of the router
\* owning the route (if it has stages) has been run before, and when handle()
\* settles after the handler returned, the post-pipeline of that router (if it
\* has stages) has been run after.
C13_OwnerMiddlewaresAroundHandler ==
    /\ (Happened("route") /\ pipes[found.owner].pre # <<>>) =>
          \E i, j \in DOMAIN events :
              /\ i < j
              /\ events[i].phase \in {"pre", "parentPre"}
              /\ events[i].router = found.owner
              /\ events[j].phase = "route"
    /\ (HandleSettled /\ Happened("route") /\ ~Happened("catch")
            /\ pipes[found.owner].post # <<>>) =>
          \E i, j \in DOMAIN events :
              /\ i < j
              /\ events[i].phase = "route"
              /\ events[j].phase \in {"parentPost", "post"}
              /\ events[j].router = found.owner

\* what the method default is to be
MethodDefault(method) ==
    IF method = "GET" THEN 200 ELSE IF method = "POST" THEN 201 ELSE 204

\* C14: the status is never the sentinel -1 once a post-pipeline has been
\* called; when nobody set a status during the body it is then the method
\* default, and a status set by a stage or by the error path is the one kept.
C14_DefaultStatusBeforePostPipelines ==
    /\ rpc \in {"parentPost", "post", "done", "rejected"} => res.status # -1
    /\ (rpc \in {"parentPost", "post", "done", "rejected"} /\ ~PostWrote) =>
          res.status = IF Happened("catch")
                       THEN (IF error.kind = "HTTPError" THEN error.statusCode ELSE 500)
                       ELSE IF WroteDuring({"pre", "parentPre"}) THEN 429
                       ELSE MethodDefault(req.method)

\* C14 witness: a DELETE handler returned a value, no stage set a status, and
\* the call has settled with status 204.
C14_Witness ==
    /\ rpc = "done" /\ req.method = "DELETE" /\ Happened("route")
    /\ res.data = Returned /\ res.status = 204
    /\ pipes[Root].post # <<>>

(***************************************************************************)
(* Claims about the middlewares.                                           *)
(***************************************************************************)
\* C15: once the CORS stage of the router's pre-pipeline has answered an
\* OPTIONS request, no route handler is invoked for the request and the
\* response status is 204 when handle() settles.
C15_PreflightNeverReachesHandler ==
    (\E i \in DOMAIN events : events[i].phase = "cors" /\ events[i].during = "pre") =>
        /\ ~Happened("route")
        /\ HandleSettled => res.status = 204

\* C16: with the rate limiter set to max = N in a pre-pipeline, an arrival
\* is rejected exactly when it is later than the N-th of its address since the
\* last reset; an accepted request reaches the route handler, while a
\* rejected one never reaches it, ends with status 429 when no rejection
\* callback is configured, and never carries the handler's output.
C16_RejectedRequestNeverReachesHandler ==
    \A i \in DOMAIN events : events[i].phase = "rate-limit" =>
        /\ events[i].limited <=> events[i].nth > rateMax
        /\ (~events[i].limited /\ HandleSettled) => Happened("route")
        /\ events[i].limited =>
               /\ ~Happened("route")
               /\ res.data # Returned
               /\ (HandleSettled /\ ~rateCallback) => res.status = 429

\* the hit counter of every address is the number of its arrivals since the
\* timer fired last, capped at max
CountersFollowArrivals ==
    \A a \in Addresses :
        rateHits[a] = IF served.arrivals[a] < rateMax THEN served.arrivals[a] ELSE rateMax

\* the first arrival of an address since the timer fired last is accepted
FirstArrivalAccepted ==
    \A i \in DOMAIN events :
        (events[i].phase = "rate-limit" /\ events[i].nth = 1) => ~events[i].limited

\* C17 as stated: the one reset timer clears the counters of all addresses
\* together, and the next request of any address after a reset is accepted
\* and counted as its first hit.
C17_ResetClearsAllCounters ==
    CountersFollowArrivals /\ FirstArrivalAccepted

\* C17 amended: the same, for a limiter configured with max of at least 1.
C17_ResetClearsAllCountersOfPositiveMax ==
    /\ CountersFollowArrivals
    /\ rateMax >= 1 => FirstArrivalAccepted

\* an address rejected before the timer fired is accepted as a first hit
C17_Witness ==
    /\ rateMax >= 1
    /\ \E i \in DOMAIN events :
           /\ events[i].phase = "rate-limit"
           /\ events[i].address \in served.wasRejecting
           /\ events[i].nth = 1
           /\ ~events[i].limited
           /\ rateHits[events[i].address] = 1

\* C18: when cache-before finds a stored response for the method and URL of
\* the request, the route handler is not invoked for this request and the
\* response ends with the stored body and status.
C18_CacheHitSkipsHandler ==
    \A i \in DOMAIN events :
        (events[i].phase = "cache-before" /\ events[i].outcome = "hit") =>
            /\ ~Happened("route")
            /\ HandleSettled => CachedItem(res) = events[i].item

\* the stage cache-after returns for a request whose key has an entry
KeptByCacheAfter ==
    /\ Returning("cache-after")
    /\ stack' # stack
    /\ MethodCached(cacheSettings, req.method)
    /\ CacheKey(req) \in DOMAIN cache

\* C19: while an entry exists for the key of a request, the stage cache-after
\* leaves the cache as it is, the entry of the key included, and schedules
\* no expiry.
C19_ExistingEntryNeverReplaced ==
    [][KeptByCacheAfter => (cache' = cache /\ cacheTimers' = cacheTimers)]_vars

\* cache-after has met an entry that differs from the response of the request
C19_Witness ==
    \E i \in DOMAIN events :
        /\ events[i].phase = "cache-after"
        /\ events[i].outcome = "kept"
        /\ events[i].item # CachedItem(res)
        /\ events[i].key \in DOMAIN cache
        /\ cache[events[i].key] = events[i].item

\* a step that stores an entry for a key that had none
StoresNewEntry == DOMAIN cache' \ DOMAIN cache # {}

\* maxItems is configured
MaxItemsGiven == cacheSettings.maxItems.given

\* maxItems is configured as 1 or more
MaxItemsPositive == MaxItemsGiven /\ cacheSettings.maxItems.value >= 1

\* the new entry is stored into a cache of maxItems or more entries
StoresIntoFull == StoresNewEntry /\ CacheSize(cache) >= cacheSettings.maxItems.value

RegistrationMade ==
    /\ regCall'.op # None
    /\ <<regCall, handlers>>' # <<regCall, handlers>>

\* C22: a registration that fails does so at the call, with a TypeError or
\* with the not-found Error of an anchor that no stage has, and leaves the
\* stage list unchanged; a registration with an anchor succeeds exactly when
\* a stage has the anchor name, and handle() never fails for a registration.
C22_FailedRegistrationChangesNothing ==
    [][RegistrationMade =>
        /\ regCall'.outcome \in {"ok", "TypeError", "Error"}
        /\ regCall'.outcome # "ok" => handlers' = handlers
        /\ regCall'.outcome = "ok" => Len(handlers') = Len(handlers) + 1
        /\ regCall'.outcome = "Error" =>
               /\ regCall'.op \in {"addBefore", "addAfter"}
               /\ \A i \in 1..Len(handlers) : handlers[i] # regCall'.anchor
        /\ (regCall'.op \in {"addBefore", "addAfter"} /\ regCall'.outcome = "ok") =>
               \E i \in 1..Len(handlers) : handlers[i] = regCall'.anchor
        /\ thrown' = thrown /\ pc' = pc]_vars

\* a registration with an anchor has failed on a Pipeline that has stages
C22_Witness ==
    /\ regCall.op \in {"addBefore", "addAfter"}
    /\ regCall.outcome = "Error"
    /\ Len(handlers) >= 2

\* cache-before has found no entry for the key of a request that has a
\* route: the key never had one (miss), or a timer has removed it (expired)
MissedWithRoute(outcomes) ==
    /\ \E i \in DOMAIN events :
           events[i].phase = "cache-before" /\ events[i].outcome \in outcomes
    /\ req.path = <<Slash, "x">>

\* C21: every entry of the cache has a pending timer for its key and is
\* eventually removed; a request that finds no entry for its key, as after
\* the expiry, is passed on by cache-before and reaches the route handler.
C21_StoredEntryEventuallyExpires ==
    /\ \A key \in CacheKeys : (key \in DOMAIN cache) ~> (key \notin DOMAIN cache)
    /\ [](\A key \in DOMAIN cache :
             key \in DOMAIN cacheTimers /\ cacheTimers[key] >= 1)
    /\ []((MissedWithRoute({"miss", "expired"}) /\ HandleSettled) => Happened("route"))

\* a request whose key had an entry that a timer removed reaches the handler
C21_Witness ==
    /\ MissedWithRoute({"expired"})
    /\ served.requests >= 1
    /\ Happened("route")

\* C25: the routes of one router hold at most one route for a method and a
\* pattern.
C25_RouteUniquePerMethodAndPattern ==
    \A r \in 1..made : \A i, j \in 1..Len(routes[r]) :
        (routes[r][i].method = routes[r][j].method
            /\ routes[r][i].path = routes[r][j].path) => i = j

\* the routers appended to r as children
ChildrenOf(r) == {children[r][i] : i \in 1..Len(children[r])}

\* C26: the ancestor list of a route that lookupPath finds from the root is
\* the path of routers from the root down to the parent of the owner, the
\* outermost first; it never holds the owner and is empty for a route of
\* the root itself.
C26_ParentsAreThePathToTheOwner ==
    (lk # NoLookup /\ lk.res.found) =>
        LET path == lk.res.parents
            owner == lk.res.owner
        IN  /\ (path = <<>>) <=> (owner = Root)
            /\ path # <<>> =>
                   /\ path[1] = Root
                   /\ \A i \in 1..(Len(path) - 1) : path[i + 1] \in ChildrenOf(path[i])
                   /\ owner \in ChildrenOf(path[Len(path)])
            /\ \A i \in 1..Len(path) : path[i] # owner
            /\ \A i, j \in 1..Len(path) : path[i] = path[j] => i = j

\* a route found two routers below the root
C26_Witness ==
    /\ lk # NoLookup /\ lk.res.found
    /\ Len(lk.res.parents) = 2
    /\ lk.res.parents[1] # lk.res.parents[2]

\* the positions in `events` at which the post-pipeline of an ancestor starts
ParentPostStarts == {i \in DOMAIN events : events[i].phase = "parentPost"}

\* C27: after the route handler has run, the post-pipelines of the ancestors
\* are started innermost first, the reverse of the order of their
\* pre-pipelines, and the post-pipeline of the dispatching router starts last.
C27_AncestorPostPipelinesInnermostFirst ==
    Happened("route") =>
        /\ \A i, j \in ParentPostStarts :
               i < j =>
                 \E a, b \in DOMAIN found.parents :
                     /\ found.parents[a] = events[i].router
                     /\ found.parents[b] = events[j].router
                     /\ a > b
        /\ \A i \in ParentPostStarts : \A j \in DOMAIN events :
               events[j].phase = "post" => i < j

\* C28: a post-pipeline runs on a response whose status is not -1, and
\* after a failure of the body on the error status and the error body that
\* the failure boundary has written, until a post-pipeline stage writes.
C28_ErrorResponseBeforePostPipelines ==
    rpc \in {"parentPost", "post"} =>
        /\ res.status # -1
        /\ (Happened("catch") /\ ~PostWrote) =>
               /\ res.status = IF error.kind = "HTTPError" THEN error.statusCode ELSE 500
               /\ res.data.kind = "error"
               /\ res.data.statusCode = res.status

\* a post-pipeline stage has started after a failure of the body
C28_Witness ==
    /\ rpc = "post" /\ pc = "running" /\ log # <<>>
    /\ Happened("catch")
    /\ res.status = 500
    /\ res.data.kind = "error"

\* the paths that a string pattern stands for: `:name` for a non-empty run of
\* characters other than '/', `*` for any run of characters, every other
\* character for itself, the whole of the path being matched
RECURSIVE Denotes(_, _)
Denotes(pattern, path) ==
    IF pattern = <<>> THEN path = <<>>
    ELSE IF Head(pattern) = ":" /\ RunLen(pattern, 2, WordChars) > 0
         THEN LET n == RunLen(pattern, 2, WordChars)
                  rest == SubSeq(pattern, n + 2, Len(pattern))
              IN  \E k \in 1..Len(path) :
                      /\ \A m \in 1..k : path[m] # Slash
                      /\ Denotes(rest, SubSeq(path, k + 1, Len(path)))
         ELSE IF Head(pattern) = "*"
              THEN \E k \in 0..Len(path) :
                       Denotes(Tail(pattern), SubSeq(path, k + 1, Len(path)))
              ELSE /\ path # <<>>
                   /\ Head(path) = Head(pattern)
                   /\ Denotes(Tail(pattern), Tail(path))

\* matchPath has answered for the pattern, the prefix and the path
Matched == mMatched # <<>>

\* C30: matchPath answers true exactly for the normalized request paths that
\* the pattern stands for, a `:name` standing for one non-empty segment, a `*`
\* for any run of characters and every other character for itself, the whole
\* path being matched.
C30_PatternMatchesWhatItDenotes ==
    Matched =>
        (mMatched[1] <=> Denotes(MatchPattern(mPrefix, StrPath(mPattern)),
                                 MatchNormalizePath(mPath)))

\* a value with nothing in it
Empty(value) ==
    \/ value.kind \in {"undefined", "null"}
    \/ value.kind = "string" /\ value.v = <<>>
    \/ value.kind = "array" /\ value.v = <<>>
    \/ value.kind = "object" /\ value.v = {}

\* the event of the return of the route handler
Return == events[Len(events)]

HandlerReturned == rpc = "then" /\ Return.phase = "route"

ReturnKeepsStatusAndHeaders ==
    HandlerReturned =>
        /\ res.status = Return.before.status
        /\ res.headers = Return.before.headers

\* C29, as stated: the return value of the route handler replaces the body
\* only when it is not empty, an empty value leaves the body as it was, and
\* the return changes neither the status nor the headers.
C29_ReturnReplacesBodyOnlyWhenNonEmpty ==
    /\ ReturnKeepsStatusAndHeaders
    /\ (HandlerReturned /\ Empty(Return.returned)) => res.data = Return.before.data

\* C29, amended: the return value replaces the body exactly when it is
\* truthy; undefined, null, false, 0 and the empty string leave the body as
\* it was, every other value, an empty array or object too, replaces it; the
\* return changes neither the status nor the headers.
C29_ReturnReplacesBodyWhenTruthy ==
    /\ ReturnKeepsStatusAndHeaders
    /\ HandlerReturned =>
           IF Return.returned \in {Undefined, Null, Bool(FALSE), Num(0), Str(<<>>)}
           THEN res.data = Return.before.data
           ELSE res.data = Return.returned

\* the handler has returned an empty array after a stage has written a body
C29_Witness ==
    /\ HandlerReturned
    /\ Return.returned = Arr(<<>>)
    /\ Return.before.data = StageData
    /\ res.data = Arr(<<>>)

\* the stages of call e that have started and have not returned
Unfinished(e) ==
    {p \in DOMAIN runs[e].kinds : runs[e].phase[p] \in {"io", "waiting"}}

\* those of them that cannot go on yet: a stage that awaits something other
\* than next(), and a stage that awaits a next() that has not resolved
Blocked(e) ==
    {p \in Unfinished(e) :
        runs[e].phase[p] = "waiting" => ~Resolved(runs[e], runs[e].awaits[p])}

\* C23: handle() resolves only after every stage that it started has
\* returned, so that nothing of the request runs after it while a stage is
\* still in progress.
C23_HandleResolvesAfterEveryStage ==
    \A e \in Execs : runs[e].st = "resolved" => Blocked(e) = {}

\* the first stage that returns without calling next, or the last stage
StopAt(kinds) ==
    IF \E p \in DOMAIN kinds : kinds[p] = "stop"
    THEN Min({p \in DOMAIN kinds : kinds[p] = "stop"})
    ELSE Len(kinds)

\* every stage of the Context awaits the next() that it calls
Awaiting(kinds) == \A p \in DOMAIN kinds : kinds[p] # "fire"

\* call e has resolved and none of its stages is suspended
Quiet(e) == runs[e].st = "resolved" /\ Unfinished(e) = {}

\* C24: whatever the other calls do, a call starts the stages in list order
\* from the first one and none after a stage that did not call next; once
\* it has come to rest it has started every stage up to the first of its
\* own that did not call next; it returns true only when it has started
\* every stage, and when its stages await their next() it resolves with all
\* of them finished and with the result that its own stages determine.
C24_ConcurrentCallsDoNotInterfere ==
    \A e \in Execs :
        LET own == runs[e]
            ownStop == StopAt(own.kinds)
        IN  /\ own.started = [i \in 1..Len(own.started) |-> i]
            /\ Len(own.started) <= ownStop
            /\ own.st = "none" => own.started = <<>>
            /\ Quiet(e) => Len(own.started) = ownStop
            /\ (own.st = "resolved" /\ own.returned) =>
                   Len(own.started) = Len(own.kinds)
            /\ (own.st = "resolved" /\ Awaiting(own.kinds)) =>
                   /\ Quiet(e)
                   /\ own.returned = (ownStop = Len(own.kinds))

\* call 1 was suspended in its first stage when call 2 was made; call 2
\* stopped at its first stage, call 1 went on through every stage
C24_Witness ==
    /\ 1 \in runs[2].during
    /\ runs[1].kinds = <<"io", "await">>
    /\ runs[2].kinds[1] = "stop"
    /\ runs[2].st = "resolved" /\ ~runs[2].returned
    /\ runs[1].st = "resolved" /\ runs[1].returned
    /\ runs[2].started = <<1>>
    /\ runs[1].started = <<1, 2>>

(***************************************************************************)
(* Claims about RegExp routes on nested routers, checked under RegExpSpec. *)
(***************************************************************************)
\* the RegExp route of the chain, registered on its innermost router
NestedRoute == routes[made][1]

\* C31: a RegExp route is tested against the normalized request path alone:
\* registered on a nested router, under whatever prefixes of that router and
\* of its ancestors, it is found for exactly the requests for which it
\* answers on a router without any prefix.
C31_RegExpRouteIgnoresPrefixes ==
    Looked =>
        /\ lk.res.found <=> RouteAnswers(<<>>, NestedRoute, lk.method, lk.path)
        /\ lk.res.found <=>
               /\ lk.method = "GET"
               /\ Test(NestedRoute.path.text, MatchNormalizePath(lk.path))

\* C31 witness: /^\/x$/ on the innermost of three routers, under the prefixes
\* "/a" of its parent and "b" of its own, was found for GET /x/
C31_Witness ==
    /\ Looked /\ made = 3
    /\ prefixOf[2] = <<Slash, "a">> /\ prefixOf[3] = <<"b">>
    /\ NestedRoute.path = RePath(<<Lit(Slash), Lit("x")>>)
    /\ lk.method = "GET" /\ lk.path = <<Slash, "x", Slash>>
    /\ lk.res.found /\ lk.res.owner = 3

(***************************************************************************)
(* Claims about the headers of the CORS stage, checked under               *)
(* CorsHeadersSpec.                                                        *)
(***************************************************************************)
\* the headers of the settings that `given` holds of are on the response,
\* with the values that the handler writes for them, when the CORS stage
\* calls next or returns for a preflight, and from then on
CorsHeadersOf(given(_)) ==
    \A i \in DOMAIN events :
        events[i].phase = "cors-headers" =>
            \A setting \in CorsWrites(corsSettings, given) :
                LET name == CorsHeaderName[setting]
                    value == CorsHeaderValue(setting, corsSettings[setting])
                IN  /\ name \in DOMAIN events[i].headers
                    /\ events[i].headers[name] = value
                    /\ name \in DOMAIN resHeaders
                    /\ resHeaders[name] = value

\* C32: for a request of any method that reaches the CORS stage, the header
\* of every setting that is given is on the response before the stage calls
\* next or returns for a preflight, and is still there on the final
\* response, after a failure of a later stage or of the handler too.
C32_GivenSettingsHaveTheirHeaders == CorsHeadersOf(IsSet)

\* the same for the settings given with a truthy value
CorsHeadersOfTruthySettings == CorsHeadersOf(ToBoolean)

\* a GET request went through the CORS stage with all six settings given,
\* the route handler threw, and the call has settled with the six headers
CorsHeadersSurviveFailure ==
    /\ rpc = "done" /\ req.method = "GET" /\ Happened("catch") /\ Happened("route")
    /\ Happened("cors-headers")
    /\ Cardinality(DOMAIN resHeaders) = Len(CorsSettingNames)
    /\ resHeaders["Access-Control-Max-Age"] = Str(<<"5">>)
    /\ resHeaders["Access-Control-Expose-Headers"] = Str(<<"X-Id", ", ", "X-Test">>)

(***************************************************************************)
(* Claims about concurrent requests at the cache-after stage, checked      *)
(* under RaceSpec.                                                         *)
(***************************************************************************)
\* where the cache-after stage of request e was called and where it resumed
\* in the history, 0 when it has not
At(e, phases) ==
    LET at == {i \in DOMAIN events : events[i].call = e /\ events[i].phase \in phases}
    IN  IF at = {} THEN 0 ELSE Min(at)

CalledAt(e) == At(e, {"start"})
ResumedAt(e) == At(e, {"stored", "kept"})

\* requests a and b for one key that was not cached were both at the await
\* of the cache-after stage, and both have gone on, a before b
Raced(a, b) ==
    /\ a # b
    /\ runs[a].req = runs[b].req
    /\ CalledAt(a) > 0 /\ CalledAt(b) > 0
    /\ ~events[CalledAt(a)].had /\ ~events[CalledAt(b)].had
    /\ ResumedAt(a) > 0 /\ ResumedAt(b) > ResumedAt(a)
    /\ CalledAt(a) < ResumedAt(a) /\ CalledAt(b) < ResumedAt(a)

\* the entry of the key was taken out of the cache between the events i, j
RemovedBetween(key, i, j) ==
    \E m \in (i + 1)..(j - 1) :
        \/ events[m].phase = "expired" /\ events[m].key = key /\ events[m].had
        \/ events[m].phase = "stored" /\ events[m].cleared

\* C33, as stated: when two concurrent requests for the same uncached key
\* both pass through the cache-after stage, the entry left in the cache is
\* the response of the request whose cache-after stage ran last.
C33_LastWriteWins ==
    \A a, b \in CacheCalls :
        Raced(a, b) => events[ResumedAt(b)].left = CachedItem(CallResponse(b))

\* C33, amended: the population is first-write-wins.  Of two concurrent
\* requests for the same key the one that goes on first after its await and
\* finds no entry stores its response; the other, unless the entry was
\* taken out in between by its timer or by an eviction, finds it and leaves
\* it: the entry left is the response of the first.
C33_FirstWriteWins ==
    \A a, b \in CacheCalls :
        (/\ Raced(a, b)
         /\ events[ResumedAt(a)].phase = "stored"
         /\ ~RemovedBetween(CacheKey(runs[a].req), ResumedAt(a), ResumedAt(b)))
            => /\ events[ResumedAt(b)].phase = "kept"
               /\ events[ResumedAt(b)].left = CachedItem(CallResponse(a))

\* C33 witness: requests 2 and 1 for GET /x were both at the await, 2 went
\* on first and stored its response, 1 went on next: the cache holds the
\* response of 2
C33_Witness ==
    /\ Raced(2, 1)
    /\ ResumedAt(1) = ResumedAt(2) + 1
    /\ runs[1].req = Request("GET", <<Slash, "x">>)
    /\ events[ResumedAt(2)].phase = "stored"
    /\ cache[CacheKey(runs[1].req)] = CachedItem(CallResponse(2))

\* C38: an entry leaves the cache only by an eviction or by the timer that
\* was scheduled when it was stored: a timer that takes an entry out is the
\* last one pending for the key, never the timer of an earlier entry of the
\* same key while the timer of the present entry has still to run.
C38_TimerRemovesOnlyItsOwnEntry ==
    \A i \in DOMAIN events :
        (events[i].phase = "expired" /\ events[i].had) => events[i].pending = 0

(***************************************************************************)
(* A claim about matchPath and extractParams as lookupPath applies them    *)
(* one after the other, checked under MatcherSpec.                         *)
(***************************************************************************)
\* the names of the `:name` segments of the pattern
GivenParamNames ==
    {SegName(GivenPatternSegs[i]) :
        i \in {k \in DOMAIN GivenPatternSegs : IsParamSeg(GivenPatternSegs[k])}}

\* C34: whenever matchPath accepts a request path for a string pattern, the
\* parameters that extractParams returns for the same prefix, pattern and
\* path bind every `:name` of the pattern to a non-empty value, for paths
\* with a trailing '/' as well.
C34_MatchedRouteBindsEveryParam ==
    (mMatched = <<TRUE>> /\ mParams # <<>>) =>
        \A name \in GivenParamNames :
            /\ name \in DOMAIN mParams[1]
            /\ mParams[1][name] # <<>>

(***************************************************************************)
(* Further claims about Router.handle, checked under RouterSpec.           *)
(***************************************************************************)
\* where handle() has called Pipeline.handle on a pipeline of router r: its
\* pre-pipeline for `phases` = pre, parentPre, its post-pipeline for
\* parentPost, post
RunsOf(r, phases) ==
    {i \in DOMAIN events : events[i].phase \in phases /\ events[i].router = r}

\* C35: during one handle(ctx) call no router's pre-pipeline and no router's
\* post-pipeline is run more than once, for a route of the dispatching
\* router and for a route of a nested router alike (stated here for the
\* pipelines that have a stage).
C35_EachPipelineRunsAtMostOnce ==
    \A r \in Routers :
        /\ pipes[r].pre # <<>> => Cardinality(RunsOf(r, {"pre", "parentPre"})) <= 1
        /\ pipes[r].post # <<>> => Cardinality(RunsOf(r, {"parentPost", "post"})) <= 1

\* C36: handle(ctx) never rejects: whatever stage of the request throws, a
\* stage of the post-pipeline of an ancestor or of the router itself too,
\* the promise of handle() is fulfilled.
C36_HandleNeverRejects == rpc # "rejected"

(***************************************************************************)
(* A claim about concurrent requests at the rate limiter, checked under    *)
(* LimiterSpec.                                                            *)
(***************************************************************************)
\* C37: under every interleaving of concurrent requests the hit counter of
\* an address never exceeds max, at most max requests of an address call
\* next between two resets, a rejected request leaves every counter as it
\* was, and a request changes no counter but that of its own address (the
\* fallback address for a request without one), which it raises by one.
C37_CountersBoundedUnderInterleaving ==
    /\ \A a \in Addresses : rateHits[a] <= rateMax /\ served.passed[a] <= rateMax
    /\ \A i \in DOMAIN events :
           LET ev == events[i]
           IN  /\ ev.limited => ev.after = ev.before
               /\ ~ev.limited => ev.after[ev.address] = ev.before[ev.address] + 1
               /\ \A a \in Addresses \ {ev.address} : ev.after[a] = ev.before[a]

\* C37 witness: with max = 1, requests 1 and 2 of the address 10.0.0.1 were
\* both suspended before the rate limiter when its counter was 0; request 1
\* went through, request 2 was rejected, and request 3, without an address,
\* went through on the counter of 127.0.0.1
C37_Witness ==
    /\ rateMax = 1
    /\ runs[1].ip = "10.0.0.1" /\ runs[2].ip = "10.0.0.1" /\ runs[3].ip = NoIp
    /\ runs[1].seen = 0 /\ runs[2].seen = 0
    /\ runs[1].st = "passed" /\ runs[2].st = "rejected" /\ runs[3].st = "passed"
    /\ Len(events) = 3
    /\ events[1].call = 1 /\ events[2].call = 2
    /\ rateHits = [a \in Addresses |-> 1]

(***************************************************************************)
(* A claim about the termination of Pipeline.handle, checked under         *)
(* LiveSpec.                                                               *)
(***************************************************************************)
\* C39: within one handle() call the stages are started in strictly
\* increasing list position, hence each at most once, also when a stage
\* calls next more than once or calls it after a later stage has finished;
\* and when every stage terminates, handle() settles.
C39_StagesStartOnceAndHandleSettles ==
    /\ [](\A i, j \in DOMAIN log : i < j => log[i] < log[j])
    /\ (pc = "running") ~> (pc \in {"done", "rejected"})

\* C39 witness: of three stages the first called next twice; the second and
\* the third, each started by one of these calls, returned without calling
\* next, the third after the second had finished; handle() has resolved
C39_Witness ==
    /\ pc = "done"
    /\ Len(handlers) = 3
    /\ log = <<1, 2, 3>>
    /\ skipped = {2, 3}
    /\ result
====
